---- MODULE Spec2Model ----
(***************************************************************************)
(* State-machine model of the IPCA OCFFramework                            *)
(* (resource/IPCA/src/ocfframework.cpp): the device registry, the          *)
(* maintenance thread, the operation dispatcher, the listener list and the *)
(* security (RequestAccess) workflow.                                      *)
(*                                                                         *)
(* Every thread of the program is a member of Threads with a program       *)
(* counter pc[t] and locals loc[t].  A block of code that runs under       *)
(* m_OCFFrameworkMutex is one atomic action; code outside the mutex is     *)
(* split at every access to shared state.  DeviceDetails objects live on   *)
(* a heap (shared_ptr): an entry erased from the maps stays reachable from *)
(* the threads that still hold it.                                         *)
(***************************************************************************)
EXTENDS Integers, Sequences, FiniteSets, TLC

\* ------------------------------------------------------------------ bounds
MaxEntries == 2          \* DeviceDetails objects alive at one time
MaxNow == 300002         \* last clock value (ms) the model reaches
MaxOpenClose == 2        \* IPCADeviceOpenCalled/CloseCalled calls that return Ok
MaxReceived == 1         \* events kept in the history of one listener
MaxPending == 1          \* get/post/delete/observe calls in flight at one time
MaxRequestAccessEvents == 2  \* RequestAccessComplete events kept per listener

\* ------------------------------------------------------- program constants
AllowedTimeSincLastCloseMs == 300000
AllowedTimeSinceLastDiscoveryResponseMs == 60000
MAX_REQUEST_COUNT == 3

\* ------------------------------------------------------------------ inputs
Hosts == {"h1", "h2"}
OC_RSRVD_PLATFORM_URI == "/oic/p"
OC_RSRVD_DEVICE_URI == "/oic/d"

\* Discovery records (OCResource): sid, host, uri, resource types, interfaces.
ResA1 == [sid |-> "A", host |-> "h1", uri |-> "/a",
          types |-> <<"t1">>, interfaces |-> <<"if1">>]
ResB1 == [sid |-> "B", host |-> "h1", uri |-> "/a",
          types |-> <<"t1">>, interfaces |-> <<"if1">>]
\* The resource of ResA1 reported again with another resource type, and a
\* second resource of device A at another host.
ResA1Retyped == [sid |-> "A", host |-> "h1", uri |-> "/a",
                 types |-> <<"t2">>, interfaces |-> <<"if1">>]
ResA2 == [sid |-> "A", host |-> "h2", uri |-> "/b",
          types |-> <<"t1", "t3">>, interfaces |-> <<"if2">>]
NoResource == [sid |-> "", host |-> "", uri |-> "",
               types |-> <<>>, interfaces |-> <<>>]

CbThreads == {"cb1", "cb2"}
AppThreads == {"app1", "app2"}
WorkerThread == "wt"
Threads == CbThreads \cup AppThreads \cup {WorkerThread}

EntryIds == 1..MaxEntries
NoEntry == 0

VARIABLES
    now,                              \* OICGetCurrentTime(TIME_IN_MS)
    m_isStarted, m_isStopping,
    earlyReturns,                     \* history: "Start"/"Stop" calls that found
                                      \*   nothing to do and returned IPCA_OK, and
                                      \*   the initialisation steps on which a
                                      \*   Start returned IPCA_FAIL
    m_OCFDevices,                     \* deviceId -> entry (std::map)
    m_OCFDevicesIndexedByDeviceURI,   \* host URI -> entry (std::map)
    heap,                             \* DeviceDetails objects (free when deviceId is "")
    m_callbacks,                      \* sequence of listeners
    pc, loc,                          \* per thread: position and locals
    pendingPlatformInfo,              \* hosts with a getPlatformInfo in flight
    pendingDeviceInfo,                \* hosts with a getDeviceInfo in flight
    fetches,                          \* history: fetches issued per entry and kind
    opensOk, closesOk,                \* history: Open/Close calls that returned Ok
    evictions,                        \* history: one record per entry the tick erased
    received,                         \* history: per listener, the events it was given
    unregistered,                     \* history: listeners whose unregistration returned
    requestAccessThread,              \* per entry: securityInfo.requestAccessThread and
                                      \*   the security worker it holds
    m_OCFRequestAccessContexts,       \* device ids with a RequestAccessContext
    pendingOwnershipTransfer,         \* device ids with a doMultipleOwnershipTransfer
                                      \*   in flight
    spawned,                          \* history: security workers spawned per entry
    terminated,                       \* std::terminate was called
    pendingRequests,                  \* get/post/delete/observe calls in flight
    lastCommand                       \* history: the SendCommandToDevice call that
                                      \*   returned last

regVars == <<m_OCFDevices, m_OCFDevicesIndexedByDeviceURI, heap>>
lifeVars == <<m_isStarted, m_isStopping, earlyReturns>>
netVars == <<pendingPlatformInfo, pendingDeviceInfo>>
histVars == <<fetches, opensOk, closesOk, evictions, received, unregistered>>
secVars == <<requestAccessThread, m_OCFRequestAccessContexts,
             pendingOwnershipTransfer, spawned, terminated>>
busVars == <<pendingRequests, lastCommand>>
vars == <<now, lifeVars, regVars, m_callbacks, busVars, secVars, pc, loc, netVars,
          histVars>>

\* ------------------------------------------------------------ map helpers
MapPut(m, k, v) == [x \in DOMAIN m \cup {k} |-> IF x = k THEN v ELSE m[x]]
MapEraseAll(m, ks) == [x \in DOMAIN m \ ks |-> m[x]]
SeqToSet(s) == {s[i] : i \in DOMAIN s}
Contains(s, x) == \E i \in DOMAIN s : s[i] = x

\* std::map iterates in key order; the keys used here are single letters or
\* short paths, ordered by this rank.
KeyRank(k) ==
    CASE k = "A" -> 1 [] k = "B" -> 2 [] k = "Z" -> 3
      [] k = "/a" -> 1 [] k = "/b" -> 2 [] k = "/oic/d" -> 3 [] k = "/oic/p" -> 4
      [] OTHER -> 9

RECURSIVE SortedKeys(_)
SortedKeys(ks) ==
    IF ks = {} THEN <<>>
    ELSE LET k == CHOOSE x \in ks : \A y \in ks : KeyRank(x) <= KeyRank(y)
         IN <<k>> \o SortedKeys(ks \ {k})

\* ------------------------------------------------------- DeviceDetails
FreshEntry ==
    [deviceId |-> "",
     deviceUris |-> <<>>,
     resourceMap |-> <<>>,
     discoveredResourceTypes |-> <<>>,
     discoveredResourceInterfaces |-> <<>>,
     deviceInfoRequestCount |-> 0,
     deviceInfoAvailable |-> FALSE,
     platformInfoRequestCount |-> 0,
     platformInfoAvailable |-> FALSE,
     maintenanceResourceRequestCount |-> 0,
     maintenanceResourceAvailable |-> FALSE,
     securityInfoAvailable |-> FALSE,
     isStarted |-> FALSE,
     subowner |-> FALSE,
     deviceOpenCount |-> 0,
     lastPingTime |-> 0,
     lastCloseDeviceTime |-> 0,
     lastResponseTimeToDiscovery |-> 0,
     deviceNotRespondingIndicated |-> FALSE]

NoLoc ==
    [dev |-> NoEntry, res |-> NoResource, newDevice |-> FALSE, updated |-> FALSE,
     snap |-> <<>>, rest |-> <<>>, snapAfter |-> {}, reg |-> 0, ret |-> "idle",
     currentTime |-> 0, toFetch |-> <<>>, notResponding |-> <<>>, id |-> "",
     status |-> "", issued |-> FALSE, requestAccessDevices |-> <<>>,
     ev |-> <<>>, eCode |-> "", i |-> 0]

\* securityInfo.requestAccessThread of an entry.  state "none": the std::thread
\* is not joinable.  Otherwise it is joinable and state is the position of
\* the security worker it holds ("finished": the worker function returned);
\* dev is the worker's deviceDetails and status its callbackStatus.
NoThread == [state |-> "none", dev |-> NoEntry, status |-> ""]
Joinable(e) == requestAccessThread[e].state # "none"
WorkerRuns(e) == requestAccessThread[e].state \notin {"none", "finished"}

Listeners == {"L1", "L2"}

\* No SendCommandToDevice call has returned.
NoCommand ==
    [deviceId |-> "", known |-> FALSE, status |-> "", called |-> FALSE,
     resourcePath |-> "", resourceType |-> "", resource |-> NoResource]

\* AddNewStringsToTargetList: append the strings of newList that target lacks.
RECURSIVE AddNewStringsToTargetList(_, _)
\* Every string of newList appended, present in the target or not.
AppendStringsToTargetList(newList, target) == target \o newList

AddNewStringsToTargetList(newList, target) ==
    IF newList = <<>> THEN target
    ELSE AddNewStringsToTargetList(
             Tail(newList),
             IF Contains(target, Head(newList)) THEN target
             ELSE Append(target, Head(newList)))

\* FindDeviceDetails: the entry stored under deviceId, or NoEntry (IPCA_FAIL).
FindDeviceDetails(deviceId) ==
    IF deviceId \in DOMAIN m_OCFDevices THEN m_OCFDevices[deviceId] ELSE NoEntry

\* FindOCResource: the resource under the path, else the first resource (in map
\* order) one of whose types equals targetRT, else NoResource (nullptr).
FindOCResource_ByTypeFirst(e, targetResourcePath, targetRT) ==
    LET rm == heap[e].resourceMap
        order == SortedKeys(DOMAIN rm)
        hits == {i \in DOMAIN order : Contains(rm[order[i]].types, targetRT)}
    IN IF hits # {} THEN rm[order[CHOOSE i \in hits : \A j \in hits : i <= j]]
       ELSE IF targetResourcePath \in DOMAIN rm THEN rm[targetResourcePath]
       ELSE NoResource

FindOCResource(e, targetResourcePath, targetRT) ==
    LET rm == heap[e].resourceMap
        order == SortedKeys(DOMAIN rm)
        hits == {i \in DOMAIN order : Contains(rm[order[i]].types, targetRT)}
    IN IF targetResourcePath \in DOMAIN rm THEN rm[targetResourcePath]
       ELSE IF hits = {} THEN NoResource
       ELSE rm[order[CHOOSE i \in hits : \A j \in hits : i <= j]]

\* uint64_t subtraction `current - stamp > allowed`: when stamp is later than
\* current the difference wraps to 2^64 - (stamp - current), which exceeds
\* every allowed interval of the program.
ElapsedExceeds(current, stamp, allowed) ==
    IF current >= stamp THEN current - stamp > allowed ELSE TRUE

\* new DeviceDetails(): the lowest free heap cell.
FreeEntries == {e \in EntryIds : heap[e].deviceId = ""}
NewEntry == CHOOSE e \in FreeEntries : \A f \in FreeEntries : e <= f

\* Entries some shared_ptr still refers to: the two maps and the locals of the
\* threads.
Referenced ==
    {m_OCFDevices[id] : id \in DOMAIN m_OCFDevices}
    \cup {m_OCFDevicesIndexedByDeviceURI[u] : u \in DOMAIN m_OCFDevicesIndexedByDeviceURI}
    \cup {loc[t].dev : t \in Threads}
    \cup UNION {SeqToSet(loc[t].toFetch) : t \in Threads}
    \cup UNION {SeqToSet(loc[t].notResponding) : t \in Threads}
    \cup UNION {SeqToSet(loc[t].requestAccessDevices) : t \in Threads}
    \cup {requestAccessThread[e].dev : e \in EntryIds}

Unreferenced == {e \in EntryIds : heap[e].deviceId # "" /\ e \notin Referenced}

\* An entry is destroyed as soon as its last shared_ptr is gone: no thread
\* takes a step while an unreferenced entry awaits DestroyUnreferenced.
Running == Unreferenced = {} /\ ~terminated
At(t, label) == Running /\ pc[t] = label

\* ------------------------------------------------------------------- Init
Init ==
    /\ now = 0
    /\ m_isStarted = FALSE
    /\ m_isStopping = FALSE
    /\ earlyReturns = {}
    /\ m_OCFDevices = <<>>
    /\ m_OCFDevicesIndexedByDeviceURI = <<>>
    /\ heap = [e \in EntryIds |-> FreshEntry]
    /\ m_callbacks = <<>>
    /\ pc = [t \in Threads |-> IF t = WorkerThread THEN "none" ELSE "idle"]
    /\ loc = [t \in Threads |-> NoLoc]
    /\ pendingPlatformInfo = {}
    /\ pendingDeviceInfo = {}
    /\ fetches = [e \in EntryIds |-> [platform |-> 0, device |-> 0, maintenance |-> 0]]
    /\ opensOk = [e \in EntryIds |-> 0]
    /\ closesOk = [e \in EntryIds |-> 0]
    /\ evictions = {}
    /\ received = [l \in Listeners |-> <<>>]
    /\ unregistered = {}
    /\ requestAccessThread = [e \in EntryIds |-> NoThread]
    /\ m_OCFRequestAccessContexts = {}
    /\ pendingOwnershipTransfer = {}
    /\ spawned = [e \in EntryIds |-> 0]
    /\ terminated = FALSE
    /\ pendingRequests = {}
    /\ lastCommand = NoCommand

Goto(t, label) == pc' = [pc EXCEPT ![t] = label]
Return(t) == pc' = [pc EXCEPT ![t] = "idle"] /\ loc' = [loc EXCEPT ![t] = NoLoc]

\* ------------------------------------------------------------------ clock
AdvanceTime(steps) ==
    /\ Running
    /\ \E dt \in steps :
          /\ now + dt <= MaxNow
          /\ now' = now + dt
    /\ UNCHANGED <<lifeVars, regVars, m_callbacks, busVars, secVars, pc, loc, netVars, histVars>>

StopLabels == {"stop_join", "stop_join_worker"}

\* ------------------------------------------------------------------ Start
\* The test of line 60 that no call of Start ever passes.
NeverAlreadyStarted == FALSE

\* Line 60: if (m_isStarted).
AlreadyStarted == m_isStarted

\* Start on a framework that is not started (lines 56-162): the maintenance
\* thread is created and move-assigned to m_workerThread; assigning to a
\* joinable std::thread calls std::terminate.
Start ==
    /\ Running
    /\ ~AlreadyStarted
    /\ \A t \in AppThreads : pc[t] \notin StopLabels     \* m_startStopMutex
    /\ IF pc[WorkerThread] # "none"
       THEN /\ terminated' = TRUE
            /\ UNCHANGED <<m_isStarted, pc>>
       ELSE /\ m_isStarted' = TRUE
            /\ pc' = [pc EXCEPT ![WorkerThread] = "wt_top"]
            /\ UNCHANGED terminated
    /\ UNCHANGED <<now, m_isStopping, earlyReturns, regVars, m_callbacks, busVars,
                   requestAccessThread, m_OCFRequestAccessContexts,
                   pendingOwnershipTransfer, spawned, loc, netVars, histVars>>

\* Lines 58-64: Start on a started framework returns IPCA_OK at once.
Start_AlreadyStarted ==
    /\ Running
    /\ AlreadyStarted
    /\ \A t \in AppThreads : pc[t] \notin StopLabels     \* m_startStopMutex
    /\ earlyReturns' = earlyReturns \cup {"Start"}
    /\ UNCHANGED <<now, m_isStarted, m_isStopping, regVars, m_callbacks, busVars,
                   secVars, pc, loc, netVars, histVars>>

\* The initialisation steps of Start whose failure makes it return IPCA_FAIL:
\* OCSecure::provisionInit (lines 76-80), OCPlatform::registerPlatformInfo
\* (lines 147-150) and OCPlatform::registerDeviceInfo (lines 152-155).
InitSteps == {"provisionInit", "registerPlatformInfo", "registerDeviceInfo"}

\* A failing Start that nevertheless goes on to line 160-161.
Start_InitFails_ButStarts(step) ==
    /\ Running
    /\ ~AlreadyStarted
    /\ \A t \in AppThreads : pc[t] \notin StopLabels
    /\ pc[WorkerThread] = "none"
    /\ earlyReturns' = earlyReturns \cup {step}
    /\ m_isStarted' = TRUE
    /\ pc' = [pc EXCEPT ![WorkerThread] = "wt_top"]
    /\ UNCHANGED <<now, m_isStopping, regVars, m_callbacks, busVars,
                   secVars, loc, netVars, histVars>>

\* Lines 56-80 and 145-156: Start on a framework that is not started, one of
\* whose initialisation steps fails, returns IPCA_FAIL before line 160: no
\* thread is created and m_isStarted is not written.
Start_InitFails(step) ==
    /\ Running
    /\ ~AlreadyStarted
    /\ \A t \in AppThreads : pc[t] \notin StopLabels     \* m_startStopMutex
    /\ earlyReturns' = earlyReturns \cup {step}
    /\ UNCHANGED <<now, m_isStarted, m_isStopping, regVars, m_callbacks, busVars,
                   secVars, pc, loc, netVars, histVars>>

\* Lines 166-173: Stop on a framework that is not started returns IPCA_OK at
\* once.
Stop_NotStarted ==
    /\ Running
    /\ ~m_isStarted
    /\ \A t \in AppThreads : pc[t] \notin StopLabels     \* m_startStopMutex
    /\ earlyReturns' = earlyReturns \cup {"Stop"}
    /\ UNCHANGED <<now, m_isStarted, m_isStopping, regVars, m_callbacks, busVars,
                   secVars, pc, loc, netVars, histVars>>

\* ------------------------------------------------------ listener delivery
\* One invocation of a listener method.  The history notes whether the
\* listener's unregistration had returned when the method was invoked and
\* when the list (or its snapshot) was read.
Event(kind, status, deviceId, responsive, updated) ==
    [kind |-> kind, status |-> status, deviceId |-> deviceId,
     responsive |-> responsive, updated |-> updated]

\* The history of a listener keeps at most MaxRequestAccessEvents
\* RequestAccessComplete events and at most MaxReceived events of the other
\* kinds.
Room(l, ev) ==
    LET isRequestAccess(r) == r.ev.kind = "RequestAccessComplete"
        others(r) == r.ev.kind # "RequestAccessComplete"
    IN IF ev.kind = "RequestAccessComplete"
       THEN Len(SelectSeq(received[l], isRequestAccess)) < MaxRequestAccessEvents
       ELSE Len(SelectSeq(received[l], others)) < MaxReceived

Invoke(l, ev, snapAfter) ==
    /\ Room(l, ev)
    /\ received' = [received EXCEPT ![l] =
           Append(@, [ev |-> ev,
                      afterUnregister |-> l \in unregistered,
                      snapshotAfterUnregister |-> l \in snapAfter])]

\* A walk of the list that calls no listener.
InvokeNone(ev) == UNCHANGED received

\* `for (callback : m_callbacks)` of the handlers that walk the live list:
\* every listener of the list is given `ev`.
InvokeAll(ev) ==
    /\ \A l \in SeqToSet(m_callbacks) : Room(l, ev)
    /\ received' = [l \in Listeners |->
           IF Contains(m_callbacks, l)
           THEN Append(received[l], [ev |-> ev,
                                     afterUnregister |-> l \in unregistered,
                                     snapshotAfterUnregister |-> l \in unregistered])
           ELSE received[l]]

\* callbackSnapshot = m_callbacks, under m_OCFFrameworkMutex.
TakeSnapshot(t) ==
    loc' = [loc EXCEPT ![t].snap = m_callbacks, ![t].rest = m_callbacks,
                       ![t].snapAfter = unregistered]

\* A handler of a callback thread gives `ev` to the next listener of its
\* snapshot and returns after the last one.
DeliverNext(t, ev) ==
    /\ Invoke(Head(loc[t].rest), ev, loc[t].snapAfter)
    /\ IF Len(loc[t].rest) = 1
       THEN Return(t)
       ELSE /\ loc' = [loc EXCEPT ![t].rest = Tail(@)]
            /\ UNCHANGED pc

\* updatedDeviceInformation not set for a new resource type.
UpdatedDeviceInformation_IgnoringTypes(newPath, newUri, newType, newInterface) ==
    newPath \/ newUri \/ newInterface

\* updatedDeviceInformation (lines 417-445).
UpdatedDeviceInformation(newPath, newUri, newType, newInterface) ==
    newPath \/ newUri \/ newType \/ newInterface

\* Every response taken for one of a device not yet known.
IsNewDevice_Always(sid) == TRUE

\* Line 371: m_OCFDevices.find(resource->sid()) == m_OCFDevices.end().
IsNewDevice(sid) == sid \notin DOMAIN m_OCFDevices

\* ------------------------------------------------------- OnResourceFound
\* A discovery that records no host.
AddDeviceUri_Never(deviceUris, host) == deviceUris

\* Lines 424-432: the host of the resource is pushed to deviceUris unless it
\* is already there.
AddDeviceUri(deviceUris, host) ==
    IF Contains(deviceUris, host) THEN deviceUris ELSE Append(deviceUris, host)

\* Lines 367-446 (under the mutex), then 448-455: for a new device
\* DiscoverAllResourcesGivenHost (a protocol call) and GetCommonResources.
OnResourceFound(t, r) ==
    /\ At(t, "idle")
    /\ LET isNew == IsNewDevice(r.sid)
           e == IF isNew THEN NewEntry ELSE m_OCFDevices[r.sid]
       IN /\ isNew => FreeEntries # {}
          /\ LET base == IF isNew
                         THEN [FreshEntry EXCEPT !.deviceId = r.sid,
                                                 !.lastCloseDeviceTime = now]
                         ELSE heap[e]
                 newPath == r.uri \notin DOMAIN base.resourceMap
                 newUri == ~Contains(base.deviceUris, r.host)
                 types2 == AddNewStringsToTargetList(r.types,
                                                     base.discoveredResourceTypes)
                 ifs2 == AddNewStringsToTargetList(r.interfaces,
                                                   base.discoveredResourceInterfaces)
                 ent == [base EXCEPT
                            !.deviceNotRespondingIndicated = FALSE,
                            !.lastResponseTimeToDiscovery = now,
                            !.resourceMap = MapPut(@, r.uri, r),
                            !.deviceUris = AddDeviceUri(@, r.host),
                            !.discoveredResourceTypes = types2,
                            !.discoveredResourceInterfaces = ifs2]
             IN /\ heap' = [heap EXCEPT ![e] = ent]
                /\ m_OCFDevices' = IF isNew THEN MapPut(m_OCFDevices, r.sid, e)
                                   ELSE m_OCFDevices
                /\ m_OCFDevicesIndexedByDeviceURI' =
                       IF newUri THEN MapPut(m_OCFDevicesIndexedByDeviceURI, r.host, e)
                       ELSE m_OCFDevicesIndexedByDeviceURI
                /\ loc' = [loc EXCEPT ![t] =
                       [NoLoc EXCEPT
                           !.dev = e, !.res = r, !.newDevice = isNew,
                           !.updated = UpdatedDeviceInformation(
                                           newPath, newUri,
                                           types2 # base.discoveredResourceTypes,
                                           ifs2 # base.discoveredResourceInterfaces),
                           !.ret = "orf_snapshot"]]
                /\ Goto(t, IF isNew THEN "gcr_platform" ELSE "orf_snapshot")
    /\ UNCHANGED <<now, lifeVars, m_callbacks, busVars, secVars, netVars, histVars>>

\* Lines 459-463.
OnResourceFound_Snapshot(t) ==
    /\ At(t, "orf_snapshot")
    /\ IF m_callbacks = <<>> THEN Return(t)
       ELSE TakeSnapshot(t) /\ Goto(t, "orf_deliver")
    /\ UNCHANGED <<now, lifeVars, regVars, m_callbacks, busVars, secVars, netVars, histVars>>

\* Lines 466-473: one DeviceDiscoveryCallback per step.
OnResourceFound_Deliver(t) ==
    /\ At(t, "orf_deliver")
    /\ DeliverNext(t, Event("DeviceDiscovered", "", heap[loc[t].dev].deviceId,
                            TRUE, loc[t].updated))
    /\ UNCHANGED <<now, lifeVars, regVars, m_callbacks, busVars, secVars, netVars,
                   fetches, opensOk, closesOk, evictions, unregistered>>

\* ---------------------------------------------------- GetCommonResources
\* The three blocks of GetCommonResources (lines 679-701, 704-728, 731-751).
GcrKinds ==
    [platform |-> [avail |-> "platformInfoAvailable",
                   count |-> "platformInfoRequestCount",
                   path |-> OC_RSRVD_PLATFORM_URI],
     device |-> [avail |-> "deviceInfoAvailable",
                 count |-> "deviceInfoRequestCount",
                 path |-> OC_RSRVD_DEVICE_URI],
     maintenance |-> [avail |-> "maintenanceResourceAvailable",
                      count |-> "maintenanceResourceRequestCount",
                      path |-> ""]]

\* Host the fetch is sent to: the host of /oic/p (or /oic/d) when oic/res
\* returned that resource, else deviceUris[0].
GcrHost(e, k) ==
    LET found == FindOCResource(e, GcrKinds[k].path, "")
    IN IF k # "maintenance" /\ found # NoResource THEN found.host
       ELSE heap[e].deviceUris[1]

\* The test `available == false && requestCount < MAX_REQUEST_COUNT`.
GcrShouldIssue(e, k) ==
    /\ ~heap[e][GcrKinds[k].avail]
    /\ heap[e][GcrKinds[k].count] < MAX_REQUEST_COUNT

\* requestCount++ outside the mutex is an unsynchronised read-modify-write:
\* the stored value is one more than the field's current value or one more
\* than the value this thread read when it tested the field.
GcrIncremented(e, k, reg) == {heap[e][GcrKinds[k].count] + 1, reg + 1}

\* One step of GetCommonResources, which runs without the mutex: the
\* requestCount++ that ends the block of kind `done` (when that block issued
\* its fetch) together with the test and the fetch of the block of kind
\* `next`.  "" stands for no block: the first step has no increment, the last
\* one no test.
GetCommonResources_Step(t, done, next, at, to) ==
    /\ At(t, at)
    /\ LET e == loc[t].dev
           issue == next # "" /\ GcrShouldIssue(e, next)
       IN /\ IF done # "" /\ loc[t].issued
             THEN \E v \in GcrIncremented(e, done, loc[t].reg) :
                     heap' = [heap EXCEPT ![e][GcrKinds[done].count] = v]
             ELSE UNCHANGED heap
          /\ fetches' = IF issue THEN [fetches EXCEPT ![e][next] = @ + 1]
                        ELSE fetches
          /\ pendingPlatformInfo' =
                IF issue /\ next = "platform"
                THEN pendingPlatformInfo \cup {GcrHost(e, next)}
                ELSE pendingPlatformInfo
          /\ pendingDeviceInfo' =
                IF issue /\ next = "device"
                THEN pendingDeviceInfo \cup {GcrHost(e, next)}
                ELSE pendingDeviceInfo
          /\ loc' = [loc EXCEPT
                        ![t].issued = issue,
                        ![t].reg = IF issue THEN heap[e][GcrKinds[next].count]
                                   ELSE 0]
    /\ Goto(t, to)
    /\ UNCHANGED <<now, lifeVars, m_OCFDevices, m_OCFDevicesIndexedByDeviceURI,
                   m_callbacks, busVars, secVars, opensOk, closesOk, evictions, received,
                   unregistered>>

\* GetCommonResources (lines 672-754); the caller continues at loc[t].ret.
GetCommonResources(t) ==
    \/ GetCommonResources_Step(t, "", "platform", "gcr_platform", "gcr_device")
    \/ GetCommonResources_Step(t, "platform", "device", "gcr_device",
                               "gcr_maintenance")
    \/ GetCommonResources_Step(t, "device", "maintenance", "gcr_maintenance",
                               "gcr_return")
    \/ GetCommonResources_Step(t, "maintenance", "", "gcr_return", loc[t].ret)

\* GetCommonResources run by its thread without interruption.  It reads the
\* availability flags and reads and writes only the request counters and the
\* requests in flight; specifications whose other actions read none of the
\* latter use this form.
GetCommonResources_Whole(t) ==
    /\ At(t, "gcr_platform")
    /\ LET e == loc[t].dev
           Plus(k, v) == IF GcrShouldIssue(e, k) THEN v + 1 ELSE v
       IN /\ heap' = [heap EXCEPT
                 ![e].platformInfoRequestCount = Plus("platform", @),
                 ![e].deviceInfoRequestCount = Plus("device", @),
                 ![e].maintenanceResourceRequestCount = Plus("maintenance", @)]
          /\ fetches' = [fetches EXCEPT
                 ![e] = [k \in DOMAIN GcrKinds |-> Plus(k, fetches[e][k])]]
          /\ pendingPlatformInfo' =
                IF GcrShouldIssue(e, "platform")
                THEN pendingPlatformInfo \cup {GcrHost(e, "platform")}
                ELSE pendingPlatformInfo
          /\ pendingDeviceInfo' =
                IF GcrShouldIssue(e, "device")
                THEN pendingDeviceInfo \cup {GcrHost(e, "device")}
                ELSE pendingDeviceInfo
    /\ Goto(t, loc[t].ret)
    /\ UNCHANGED <<now, lifeVars, m_OCFDevices, m_OCFDevicesIndexedByDeviceURI,
                   m_callbacks, busVars, secVars, loc, opensOk, closesOk, evictions, received,
                   unregistered>>

\* ------------------------------------------------- OnDeviceInfoCallback
\* The early returns of lines 537-555 without the test of deviceInfoAvailable.
DeviceInfoDropped_UnknownHostOnly(host) ==
    host \notin DOMAIN m_OCFDevicesIndexedByDeviceURI

\* Lines 537-555: the response is for a host that is not in the index, or
\* for a device whose device info was processed before.
DeviceInfoDropped(host) ==
    \/ host \notin DOMAIN m_OCFDevicesIndexedByDeviceURI
    \/ heap[m_OCFDevicesIndexedByDeviceURI[host]].deviceInfoAvailable

\* Lines 628-645, the same for platform info.
PlatformInfoDropped(host) ==
    \/ host \notin DOMAIN m_OCFDevicesIndexedByDeviceURI
    \/ heap[m_OCFDevicesIndexedByDeviceURI[host]].platformInfoAvailable

\* Lines 534-595 under the mutex; a response answers a getDeviceInfo sent to
\* host; `more` tells whether further responses of that host are in flight.
OnDeviceInfoCallback(t, host, more) ==
    /\ At(t, "idle")
    /\ host \in pendingDeviceInfo
    /\ pendingDeviceInfo' = IF more THEN pendingDeviceInfo
                            ELSE pendingDeviceInfo \ {host}
    /\ IF DeviceInfoDropped(host)
       THEN UNCHANGED <<regVars, pc, loc>>
       ELSE LET e == m_OCFDevicesIndexedByDeviceURI[host]
                newUri == ~Contains(heap[e].deviceUris, host)
            IN /\ heap' = [heap EXCEPT
                      ![e].deviceUris = IF newUri THEN Append(@, host) ELSE @,
                      ![e].deviceInfoAvailable = TRUE]
               /\ m_OCFDevicesIndexedByDeviceURI' =
                      IF newUri
                      THEN MapPut(m_OCFDevicesIndexedByDeviceURI, host, e)
                      ELSE m_OCFDevicesIndexedByDeviceURI
               /\ loc' = [loc EXCEPT ![t] = [NoLoc EXCEPT !.dev = e]]
               /\ Goto(t, "odi_snapshot")
               /\ UNCHANGED m_OCFDevices
    /\ UNCHANGED <<now, lifeVars, m_callbacks, busVars, secVars, pendingPlatformInfo, histVars>>

\* Lines 599-603.
OnDeviceInfoCallback_Snapshot(t) ==
    /\ At(t, "odi_snapshot")
    /\ IF m_callbacks = <<>> THEN Return(t)
       ELSE TakeSnapshot(t) /\ Goto(t, "odi_deliver")
    /\ UNCHANGED <<now, lifeVars, regVars, m_callbacks, busVars, secVars, netVars, histVars>>

\* Lines 606-613.
OnDeviceInfoCallback_Deliver(t) ==
    /\ At(t, "odi_deliver")
    /\ DeliverNext(t, Event("DeviceDiscovered", "", heap[loc[t].dev].deviceId,
                            TRUE, TRUE))
    /\ UNCHANGED <<now, lifeVars, regVars, m_callbacks, busVars, secVars, netVars,
                   fetches, opensOk, closesOk, evictions, unregistered>>

\* ----------------------------------------------- OnPlatformInfoCallback
\* The whole handler runs under the mutex.
OnPlatformInfoCallback(t, host, more) ==
    /\ At(t, "idle")
    /\ host \in pendingPlatformInfo
    /\ pendingPlatformInfo' = IF more THEN pendingPlatformInfo
                              ELSE pendingPlatformInfo \ {host}
    /\ IF PlatformInfoDropped(host)
       THEN UNCHANGED heap
       ELSE LET e == m_OCFDevicesIndexedByDeviceURI[host]
            IN heap' = [heap EXCEPT ![e].platformInfoAvailable = TRUE]
    /\ UNCHANGED <<now, lifeVars, m_OCFDevices, m_OCFDevicesIndexedByDeviceURI,
                   m_callbacks, busVars, secVars, pc, loc, pendingDeviceInfo, histVars>>

\* ------------------------------------------------- WorkerThread (the tick)
\* Line 227-228: the device is not opened and was closed long enough ago.
\* The idle test without its deviceOpenCount conjunct.
DeviceIsIdle_IgnoringOpenCount(e, currentTime) ==
    ElapsedExceeds(currentTime, heap[e].lastCloseDeviceTime,
                   AllowedTimeSincLastCloseMs)

DeviceIsIdle(e, currentTime) ==
    /\ heap[e].deviceOpenCount = 0
    /\ ElapsedExceeds(currentTime, heap[e].lastCloseDeviceTime,
                      AllowedTimeSincLastCloseMs)

\* Line 235-236.
DeviceStoppedResponding(e, currentTime) ==
    /\ ~heap[e].deviceNotRespondingIndicated
    /\ ElapsedExceeds(currentTime, heap[e].lastResponseTimeToDiscovery,
                      AllowedTimeSinceLastDiscoveryResponseMs)

\* Line 243-245.
DeviceLacksCommonResources(e) ==
    \/ ~heap[e].deviceInfoAvailable
    \/ ~heap[e].platformInfoAvailable
    \/ ~heap[e].maintenanceResourceAvailable

\* The loop of lines 209-296 without its test of m_isStopping.
WorkerThread_TopIgnoringStop ==
    /\ Running
    /\ pc[WorkerThread] = "wt_top"
    /\ pc' = [pc EXCEPT ![WorkerThread] = "wt_scan"]
    /\ loc' = [loc EXCEPT ![WorkerThread] = [NoLoc EXCEPT !.currentTime = now]]
    /\ UNCHANGED <<now, lifeVars, regVars, m_callbacks, busVars, secVars, netVars, histVars>>

\* Line 209-211, and the wait_for of line 291: the loop test after the thread
\* started, timed out or was woken; it samples the clock before taking the
\* mutex.
WorkerThread_Top ==
    /\ At(WorkerThread, "wt_top")
    /\ IF m_isStopping
       THEN /\ pc' = [pc EXCEPT ![WorkerThread] = "exited"]
            /\ loc' = [loc EXCEPT ![WorkerThread] = NoLoc]
       ELSE /\ pc' = [pc EXCEPT ![WorkerThread] = "wt_scan"]
            /\ loc' = [loc EXCEPT ![WorkerThread] =
                          [NoLoc EXCEPT !.currentTime = now]]
    /\ UNCHANGED <<now, lifeVars, regVars, m_callbacks, busVars, secVars, netVars, histVars>>

\* The walk without the `continue` of line 232.
LookedAtFurther_WithoutContinue(e, currentTime) == TRUE

\* Line 232: `continue`; the walk looks no further at a device that is idle.
LookedAtFurther(e, currentTime) == ~DeviceIsIdle(e, currentTime)

\* Lines 218-263, under the mutex: classify every device, then erase the
\* idle ones from both maps.
WorkerThread_Scan ==
    /\ At(WorkerThread, "wt_scan")
    /\ LET ct == loc[WorkerThread].currentTime
           order == SortedKeys(DOMAIN m_OCFDevices)
           entries == [i \in DOMAIN order |-> m_OCFDevices[order[i]]]
           Idle(e) == DeviceIsIdle(e, ct)
           NotResponding(e) == LookedAtFurther(e, ct) /\ DeviceStoppedResponding(e, ct)
           ToFetch(e) == LookedAtFurther(e, ct) /\ DeviceLacksCommonResources(e)
           devicesThatAreNotOpened == SelectSeq(entries, Idle)
           devicesThatAreNotResponding == SelectSeq(entries, NotResponding)
           devicesToGetCommonResources == SelectSeq(entries, ToFetch)
           erasedIds == {heap[e].deviceId : e \in SeqToSet(devicesThatAreNotOpened)}
           erasedUris == UNION {SeqToSet(heap[e].deviceUris) :
                                   e \in SeqToSet(devicesThatAreNotOpened)}
       IN /\ heap' = [e \in EntryIds |->
                        IF e \in SeqToSet(devicesThatAreNotResponding)
                        THEN [heap[e] EXCEPT !.deviceNotRespondingIndicated = TRUE]
                        ELSE heap[e]]
          /\ m_OCFDevicesIndexedByDeviceURI' =
                MapEraseAll(m_OCFDevicesIndexedByDeviceURI, erasedUris)
          /\ m_OCFDevices' = MapEraseAll(m_OCFDevices, erasedIds)
          /\ evictions' = evictions \cup
                {[entry |-> e,
                  deviceOpenCount |-> heap[e].deviceOpenCount,
                  lastCloseDeviceTime |-> heap[e].lastCloseDeviceTime,
                  closed |-> closesOk[e] > 0,
                  at |-> now] : e \in SeqToSet(devicesThatAreNotOpened)}
          /\ loc' = [loc EXCEPT
                        ![WorkerThread].toFetch = devicesToGetCommonResources,
                        ![WorkerThread].notResponding = devicesThatAreNotResponding]
          /\ pc' = [pc EXCEPT ![WorkerThread] =
                       IF devicesToGetCommonResources = <<>> THEN "wt_snapshot"
                       ELSE "wt_fetch"]
    /\ UNCHANGED <<now, lifeVars, m_callbacks, busVars, secVars, netVars,
                   fetches, opensOk, closesOk, received, unregistered>>

\* Lines 266-269: GetCommonResources for the next device of the list.
WorkerThread_Fetch ==
    /\ At(WorkerThread, "wt_fetch")
    /\ IF loc[WorkerThread].toFetch = <<>>
       THEN /\ pc' = [pc EXCEPT ![WorkerThread] = "wt_snapshot"]
            /\ UNCHANGED loc
       ELSE /\ pc' = [pc EXCEPT ![WorkerThread] = "gcr_platform"]
            /\ loc' = [loc EXCEPT
                          ![WorkerThread].dev = Head(loc[WorkerThread].toFetch),
                          ![WorkerThread].toFetch = Tail(@),
                          ![WorkerThread].ret = "wt_fetch"]
    /\ UNCHANGED <<now, lifeVars, regVars, m_callbacks, busVars, secVars, netVars, histVars>>

\* Lines 272-276; with nothing to deliver the thread goes to its wait.
WorkerThread_Snapshot ==
    /\ At(WorkerThread, "wt_snapshot")
    /\ IF loc[WorkerThread].notResponding = <<>> \/ m_callbacks = <<>>
       THEN /\ pc' = [pc EXCEPT ![WorkerThread] = "wt_top"]
            /\ loc' = [loc EXCEPT ![WorkerThread] = NoLoc]
       ELSE /\ TakeSnapshot(WorkerThread)
            /\ pc' = [pc EXCEPT ![WorkerThread] = "wt_deliver"]
    /\ UNCHANGED <<now, lifeVars, regVars, m_callbacks, busVars, secVars, netVars, histVars>>

\* Lines 279-289: one DeviceDiscoveryCallback(false, false, ...) per step, for
\* each device that stopped responding and each listener of the snapshot.
WorkerThread_Deliver ==
    /\ At(WorkerThread, "wt_deliver")
    /\ LET l == loc[WorkerThread]
           lastListener == Len(l.rest) = 1
           last == lastListener /\ Len(l.notResponding) = 1
       IN /\ Invoke(Head(l.rest),
                    Event("DeviceDiscovered", "",
                          heap[Head(l.notResponding)].deviceId, FALSE, FALSE),
                    l.snapAfter)
          /\ IF last
             THEN /\ pc' = [pc EXCEPT ![WorkerThread] = "wt_top"]
                  /\ loc' = [loc EXCEPT ![WorkerThread] = NoLoc]
             ELSE /\ loc' = [loc EXCEPT
                        ![WorkerThread].rest =
                            IF lastListener THEN l.snap ELSE Tail(l.rest),
                        ![WorkerThread].notResponding =
                            IF lastListener THEN Tail(l.notResponding)
                            ELSE l.notResponding]
                  /\ UNCHANGED pc
    /\ UNCHANGED <<now, lifeVars, regVars, m_callbacks, busVars, secVars, netVars,
                   fetches, opensOk, closesOk, evictions, unregistered>>

\* ------------------------------------- IPCADeviceOpenCalled / CloseCalled
\* Lines 302-309: FindDeviceDetails, then deviceOpenCount++ outside the mutex;
\* this step is the lookup and the read of the increment.
IPCADeviceOpenCalled(t, deviceId) ==
    /\ At(t, "idle")
    /\ LET e == FindDeviceDetails(deviceId)
       IN IF e = NoEntry
          THEN UNCHANGED <<pc, loc>>       \* IPCA_DEVICE_NOT_DISCOVERED
          ELSE /\ opensOk[e] + closesOk[e] < MaxOpenClose
               /\ loc' = [loc EXCEPT ![t] =
                             [NoLoc EXCEPT !.dev = e,
                                           !.reg = heap[e].deviceOpenCount]]
               /\ Goto(t, "open_store")
    /\ UNCHANGED <<now, lifeVars, regVars, m_callbacks, busVars, secVars, netVars, histVars>>

\* The write of the increment, and return IPCA_OK.
IPCADeviceOpenCalled_Store(t) ==
    /\ At(t, "open_store")
    /\ heap' = [heap EXCEPT ![loc[t].dev].deviceOpenCount = loc[t].reg + 1]
    /\ opensOk' = [opensOk EXCEPT ![loc[t].dev] = @ + 1]
    /\ Return(t)
    /\ UNCHANGED <<now, lifeVars, m_OCFDevices, m_OCFDevicesIndexedByDeviceURI,
                   m_callbacks, busVars, secVars, netVars, fetches, closesOk, evictions,
                   received, unregistered>>

\* Lines 316-321: FindDeviceDetails.
IPCADeviceCloseCalled(t, deviceId) ==
    /\ At(t, "idle")
    /\ LET e == FindDeviceDetails(deviceId)
       IN IF e = NoEntry
          THEN UNCHANGED <<pc, loc>>       \* IPCA_DEVICE_NOT_DISCOVERED
          ELSE /\ opensOk[e] + closesOk[e] < MaxOpenClose
               /\ loc' = [loc EXCEPT ![t] = [NoLoc EXCEPT !.dev = e]]
               /\ Goto(t, "close_decrement")
    /\ UNCHANGED <<now, lifeVars, regVars, m_callbacks, busVars, secVars, netVars, histVars>>

\* Lines 323-332, under the mutex: --deviceOpenCount, and the close time when
\* the count reached 0; return IPCA_OK.
IPCADeviceCloseCalled_Decrement(t) ==
    /\ At(t, "close_decrement")
    /\ LET e == loc[t].dev
           count == heap[e].deviceOpenCount - 1
       IN heap' = [heap EXCEPT
              ![e].deviceOpenCount = count,
              ![e].lastCloseDeviceTime = IF count = 0 THEN now ELSE @]
    /\ closesOk' = [closesOk EXCEPT ![loc[t].dev] = @ + 1]
    /\ Return(t)
    /\ UNCHANGED <<now, lifeVars, m_OCFDevices, m_OCFDevicesIndexedByDeviceURI,
                   m_callbacks, busVars, secVars, netVars, fetches, opensOk, evictions,
                   received, unregistered>>

\* ------------------------------------------------------------ PingDevice
\* Lines 978-1006: FindDeviceDetails; assert(deviceUris.size() > 0), whose
\* failure ends the program; findResource on deviceUris[0], with the result
\* the stack gives; lastPingTime is stored when the request was sent.
PingDevice(t, deviceId, results) ==
    /\ At(t, "idle")
    /\ LET e == FindDeviceDetails(deviceId)
       IN IF e = NoEntry
          THEN UNCHANGED <<heap, terminated>>          \* IPCA_FAIL
          ELSE IF heap[e].deviceUris = <<>>
          THEN terminated' = TRUE /\ UNCHANGED heap
          ELSE /\ \E result \in results :
                     heap' = IF result = "OC_STACK_OK"
                             THEN [heap EXCEPT ![e].lastPingTime = now]
                             ELSE heap
               /\ UNCHANGED terminated
    /\ UNCHANGED <<now, lifeVars, m_OCFDevices, m_OCFDevicesIndexedByDeviceURI,
                   m_callbacks, busVars, requestAccessThread,
                   m_OCFRequestAccessContexts, pendingOwnershipTransfer, spawned,
                   pc, loc, netVars, histVars>>

\* ------------------ RegisterAppCallbackObject / UnregisterAppCallbackObject
\* Lines 335-340, under the mutex.  A listener registers while it is not in
\* the list.
RegisterAppCallbackObject(t, cb) ==
    /\ At(t, "idle")
    /\ ~Contains(m_callbacks, cb)
    /\ m_callbacks' = Append(m_callbacks, cb)
    /\ unregistered' = unregistered \ {cb}
    /\ UNCHANGED <<now, lifeVars, regVars, busVars, secVars, pc, loc, netVars,
                   fetches, opensOk, closesOk, evictions, received>>

\* The list without its first element equal to cb (lines 345-352).
EraseFirst(callbacks, cb) ==
    LET hits == {i \in DOMAIN callbacks : callbacks[i] = cb}
        first == CHOOSE i \in hits : \A j \in hits : i <= j
    IN IF hits = {} THEN callbacks
       ELSE [i \in 1..(Len(callbacks) - 1) |->
                IF i < first THEN callbacks[i] ELSE callbacks[i + 1]]

\* Lines 342-353, under the mutex.
UnregisterAppCallbackObject(t, cb) ==
    /\ At(t, "idle")
    /\ m_callbacks' = EraseFirst(m_callbacks, cb)
    /\ unregistered' = unregistered \cup {cb}
    /\ UNCHANGED <<now, lifeVars, regVars, busVars, secVars, pc, loc, netVars,
                   fetches, opensOk, closesOk, evictions, received>>

\* ------------------------------------------------- SendCommandToDevice
CallbackTypes ==
    {"GetPropertiesComplete", "SetPropertiesComplete", "CreateResourceComplete",
     "DeleteResourceComplete", "ResourceChange"}

\* Lines 860-948: FindDeviceDetails, FindOCResource, then get, post,
\* deleteResource or observe on the resource; `result` is what that call
\* returns.
SendCommandToDevice(t, deviceId, type, resourcePath, resourceType, results) ==
    /\ At(t, "idle")
    /\ LET e == FindDeviceDetails(deviceId)
           ocResource == FindOCResource(e, resourcePath, resourceType)
           Returned(status, called) ==
               lastCommand' =
                   [deviceId |-> deviceId, known |-> e # NoEntry,
                    status |-> status, called |-> called,
                    resourcePath |-> resourcePath, resourceType |-> resourceType,
                    resource |-> IF e = NoEntry THEN NoResource ELSE ocResource]
       IN IF e = NoEntry
          THEN Returned("Fail", FALSE) /\ UNCHANGED pendingRequests
          ELSE IF ocResource = NoResource
          THEN Returned("ResourceNotFound", FALSE) /\ UNCHANGED pendingRequests
          ELSE \E result \in results :
                  IF result = "OC_STACK_OK"
                  THEN /\ Cardinality(pendingRequests) < MaxPending
                       /\ Returned("Ok", TRUE)
                       /\ pendingRequests' = pendingRequests \cup
                             {[type |-> type, deviceId |-> deviceId]}
                  ELSE Returned("Fail", TRUE) /\ UNCHANGED pendingRequests
    /\ UNCHANGED <<now, lifeVars, regVars, m_callbacks, secVars, pc, loc, netVars,
                   histVars>>

\* ------------------------------------------ MapOCStackResultToIPCAStatus
OCStackResults ==
    {"OC_STACK_OK", "OC_STACK_RESOURCE_CREATED", "OC_STACK_RESOURCE_DELETED",
     "OC_STACK_CONTINUE", "OC_STACK_RESOURCE_CHANGED", "OC_STACK_INVALID_URI",
     "OC_STACK_TIMEOUT", "OC_STACK_UNAUTHORIZED_REQ", "OC_STACK_ERROR"}

\* The mapping of OnGet and OnObserve, which has no case for
\* OC_STACK_UNAUTHORIZED_REQ.
MapOCStackResultWithoutAccessDenied(result) ==
    CASE result \in {"OC_STACK_OK", "OC_STACK_CONTINUE",
                     "OC_STACK_RESOURCE_CHANGED"} -> "Ok"
      [] result = "OC_STACK_RESOURCE_CREATED" -> "ResourceCreated"
      [] result = "OC_STACK_RESOURCE_DELETED" -> "ResourceDeleted"
      [] OTHER -> "Fail"

\* Lines 756-786.
MapOCStackResultToIPCAStatus(result) ==
    CASE result \in {"OC_STACK_OK", "OC_STACK_CONTINUE",
                     "OC_STACK_RESOURCE_CHANGED"} -> "Ok"
      [] result = "OC_STACK_UNAUTHORIZED_REQ" -> "AccessDenied"
      [] result = "OC_STACK_RESOURCE_CREATED" -> "ResourceCreated"
      [] result = "OC_STACK_RESOURCE_DELETED" -> "ResourceDeleted"
      [] OTHER -> "Fail"

\* eCode >= OC_STACK_RESOURCE_CHANGED.
AtLeastResourceChanged(eCode) ==
    eCode \notin {"OC_STACK_OK", "OC_STACK_RESOURCE_CREATED",
                  "OC_STACK_RESOURCE_DELETED", "OC_STACK_CONTINUE"}

\* eCode > OC_STACK_RESOURCE_CHANGED: the enumeration starts with OC_STACK_OK,
\* OC_STACK_RESOURCE_CREATED, OC_STACK_RESOURCE_DELETED, OC_STACK_CONTINUE and
\* OC_STACK_RESOURCE_CHANGED; every other code is greater.
ExceedsResourceChanged(eCode) ==
    eCode \notin {"OC_STACK_OK", "OC_STACK_RESOURCE_CREATED",
                  "OC_STACK_RESOURCE_DELETED", "OC_STACK_CONTINUE",
                  "OC_STACK_RESOURCE_CHANGED"}

\* ---------------------------------- OnPostPut / OnGet / OnObserve / OnDelete
Completion(kind, status, callbackInfo) ==
    [kind |-> kind, status |-> status, type |-> callbackInfo.type,
     deviceId |-> callbackInfo.deviceId]

\* A completion handler starts: the status is computed and the walk of
\* m_callbacks begins.  loc[t].snap notes, as history, the list at that
\* moment; the walk does not read it.
StartCompletion(t, request, eCode, ev, completes) ==
    /\ At(t, "idle")
    /\ request \in pendingRequests
    /\ pendingRequests' = IF completes THEN pendingRequests \ {request}
                          ELSE pendingRequests
    /\ loc' = [loc EXCEPT ![t] = [NoLoc EXCEPT !.ev = ev, !.eCode = eCode,
                                                !.i = 1, !.snap = m_callbacks]]
    /\ Goto(t, "live_deliver")
    /\ UNCHANGED <<now, lifeVars, regVars, m_callbacks, lastCommand, secVars,
                   netVars, histVars>>

\* Lines 789-802: SetCallback for a set and for a create request.
OnPostPut(t, request, eCode) ==
    /\ request.type \in {"SetPropertiesComplete", "CreateResourceComplete"}
    /\ StartCompletion(t, request, eCode,
                       Completion("SetCallback",
                                  MapOCStackResultToIPCAStatus(eCode),
                                  request),
                       TRUE)

\* Lines 804-823.
OnGet(t, request, eCode) ==
    /\ request.type = "GetPropertiesComplete"
    /\ StartCompletion(t, request, eCode,
                       Completion("GetCallback",
                                  IF ExceedsResourceChanged(eCode) THEN "Fail"
                                  ELSE "Ok",
                                  request),
                       TRUE)

\* Lines 825-844: one notification of an observe request, which stays in
\* flight.
OnObserve(t, request, eCode) ==
    /\ request.type = "ResourceChange"
    /\ StartCompletion(t, request, eCode,
                       Completion("ObserveCallback",
                                  IF ExceedsResourceChanged(eCode) THEN "Fail"
                                  ELSE "Ok",
                                  request),
                       FALSE)

\* Lines 846-858.
OnDelete(t, request, eCode) ==
    /\ request.type = "DeleteResourceComplete"
    /\ StartCompletion(t, request, eCode,
                       Completion("DeleteResourceCallback",
                                  MapOCStackResultToIPCAStatus(eCode),
                                  request),
                       TRUE)

\* `for (const auto& callback : m_callbacks)` of these four handlers walks
\* the live list without the mutex: each step reads the list again.
LiveDeliver(t) ==
    /\ At(t, "live_deliver")
    /\ IF loc[t].i > Len(m_callbacks)
       THEN Return(t) /\ UNCHANGED received
       ELSE /\ Invoke(m_callbacks[loc[t].i], loc[t].ev, unregistered)
            /\ loc' = [loc EXCEPT ![t].i = @ + 1]
            /\ UNCHANGED pc
    /\ UNCHANGED <<now, lifeVars, regVars, m_callbacks, busVars, secVars, netVars,
                   fetches, opensOk, closesOk, evictions, unregistered>>

\* ---------------------------------------------------------- RequestAccess
\* Lines 1392-1411: the m_isStopping test, FindDeviceDetails and the read of
\* securityInfo.isStarted; no mutex is held across the test and the write.
RequestAccess(t, deviceId) ==
    /\ At(t, "idle")
    /\ LET e == FindDeviceDetails(deviceId)
       IN IF m_isStopping \/ e = NoEntry \/ heap[e].isStarted
          THEN UNCHANGED <<pc, loc>>       \* IPCA_FAIL
          ELSE /\ loc' = [loc EXCEPT ![t] = [NoLoc EXCEPT !.dev = e]]
               /\ Goto(t, "ra_set")
    /\ UNCHANGED <<now, lifeVars, regVars, m_callbacks, busVars, secVars, netVars, histVars>>

\* Line 1404: securityInfo.isStarted = true.
RequestAccess_SetStarted(t) ==
    /\ At(t, "ra_set")
    /\ heap' = [heap EXCEPT ![loc[t].dev].isStarted = TRUE]
    /\ Goto(t, "ra_context")
    /\ UNCHANGED <<now, lifeVars, m_OCFDevices, m_OCFDevicesIndexedByDeviceURI,
                   m_callbacks, busVars, secVars, loc, netVars, histVars>>

\* Lines 1432-1435, under the mutex.
RequestAccess_AddContext(t) ==
    /\ At(t, "ra_context")
    /\ m_OCFRequestAccessContexts' =
           m_OCFRequestAccessContexts \cup {heap[loc[t].dev].deviceId}
    /\ Goto(t, "ra_spawn")
    /\ UNCHANGED <<now, lifeVars, regVars, m_callbacks, busVars, requestAccessThread,
                   pendingOwnershipTransfer, spawned, terminated, loc, netVars,
                   histVars>>

\* Lines 1438-1441: the worker is created, then move-assigned to
\* securityInfo.requestAccessThread; assigning to a joinable std::thread calls
\* std::terminate.  Otherwise the call returns IPCA_OK.
RequestAccess_Spawn(t) ==
    /\ At(t, "ra_spawn")
    /\ LET e == loc[t].dev
       IN /\ spawned' = [spawned EXCEPT ![e] = @ + 1]
          /\ IF Joinable(e)
             THEN /\ terminated' = TRUE
                  /\ UNCHANGED <<requestAccessThread, pc, loc>>
             ELSE /\ requestAccessThread' =
                        [requestAccessThread EXCEPT
                            ![e] = [NoThread EXCEPT !.state = "sw_start"]]
                  /\ Return(t)
                  /\ UNCHANGED terminated
    /\ UNCHANGED <<now, lifeVars, regVars, m_callbacks, busVars, m_OCFRequestAccessContexts,
                   pendingOwnershipTransfer, netVars, histVars>>

\* ----------------------------------------------- RequestAccessWorkerThread
WorkerAt(e, label) == Running /\ requestAccessThread[e].state = label

\* Lines 1456-1474: the m_isStopping test and FindDeviceDetails.
RequestAccessWorkerThread_Begin(e) ==
    /\ WorkerAt(e, "sw_start")
    /\ LET f == FindDeviceDetails(heap[e].deviceId)
       IN requestAccessThread' = [requestAccessThread EXCEPT ![e] =
              IF m_isStopping \/ f = NoEntry
              THEN [state |-> "sw_report", dev |-> NoEntry,
                    status |-> "SecurityUpdateRequestFailed"]
              ELSE [state |-> "sw_protocol", dev |-> f, status |-> ""]]
    /\ UNCHANGED <<now, lifeVars, regVars, m_callbacks, busVars, m_OCFRequestAccessContexts,
                   pendingOwnershipTransfer, spawned, terminated, pc, loc,
                   netVars, histVars>>

\* What the protocol engine answers to the worker (lines 1477-1570).
ProtocolOutcomes ==
    {"discover_failed", "subowner", "not_supported", "pin_failed",
     "transfer_failed", "transfer_random_pin", "transfer_preconfig_pin"}

\* Lines 1477-1601: discoverMultipleOwnerEnabledDevice, isSubownerOfDevice,
\* the ownership-transfer method (with PasswordInputCallback for a
\* preconfigured pin) and doMultipleOwnershipTransfer.
RequestAccessWorkerThread_Protocol(e, outcomes) ==
    /\ WorkerAt(e, "sw_protocol")
    /\ \E outcome \in outcomes :
         LET f == requestAccessThread[e].dev
             id == heap[e].deviceId
             known == outcome # "discover_failed"
             prompts == outcome \in {"pin_failed", "transfer_preconfig_pin"}
             transfers == outcome \in {"transfer_random_pin",
                                       "transfer_preconfig_pin"}
         IN /\ heap' = [heap EXCEPT
                   ![f].securityInfoAvailable = @ \/ known,
                   ![f].subowner = IF known THEN outcome = "subowner" ELSE @]
            /\ IF prompts
               THEN InvokeAll(Event("PasswordInput", "", id, FALSE, FALSE))
               ELSE IF outcome = "subowner"
               THEN InvokeAll(Event("RequestAccessComplete",
                                    "SecurityUpdateRequestFinished", id,
                                    FALSE, FALSE))
               ELSE UNCHANGED received
            /\ pendingOwnershipTransfer' =
                  IF transfers THEN pendingOwnershipTransfer \cup {id}
                  ELSE pendingOwnershipTransfer
            /\ requestAccessThread' = [requestAccessThread EXCEPT ![e] =
                  IF transfers THEN [@ EXCEPT !.state = "sw_wait"]
                  ELSE IF outcome = "subowner" THEN [NoThread EXCEPT !.state = "finished"]
                  ELSE [@ EXCEPT !.state = "sw_report",
                                 !.status =
                                     IF outcome = "not_supported"
                                     THEN "SecurityUpdateRequestNotSupported"
                                     ELSE "SecurityUpdateRequestFailed"]]
    /\ UNCHANGED <<now, lifeVars, m_OCFDevices, m_OCFDevicesIndexedByDeviceURI,
                   m_callbacks, busVars, m_OCFRequestAccessContexts, spawned, terminated,
                   pc, loc, netVars, fetches, opensOk, closesOk, evictions,
                   unregistered>>

\* Lines 1576-1584: wait_for(lock, 30 s) has no predicate; it returns on a
\* notify_all, on the timeout or spuriously.
RequestAccessWorkerThread_Wake(e) ==
    /\ WorkerAt(e, "sw_wait")
    /\ \E timeout \in BOOLEAN :
         requestAccessThread' = [requestAccessThread EXCEPT ![e] =
             IF timeout \/ m_isStopping
             THEN [@ EXCEPT !.state = "sw_report",
                            !.status = "SecurityUpdateRequestFailed"]
             ELSE [NoThread EXCEPT !.state = "finished"]]
    /\ UNCHANGED <<now, lifeVars, regVars, m_callbacks, busVars, m_OCFRequestAccessContexts,
                   pendingOwnershipTransfer, spawned, terminated, pc, loc,
                   netVars, histVars>>

\* The worker returning without the report loop of lines 1611-1618.
RequestAccessWorkerThread_ReturnSilently(e) ==
    /\ WorkerAt(e, "sw_report")
    /\ requestAccessThread' = [requestAccessThread EXCEPT
                                  ![e] = [NoThread EXCEPT !.state = "finished"]]
    /\ UNCHANGED <<now, lifeVars, regVars, m_callbacks, busVars, m_OCFRequestAccessContexts,
                   pendingOwnershipTransfer, spawned, terminated, pc, loc,
                   netVars, histVars>>

\* Lines 1611-1618: the failure is reported to the listeners and the worker
\* function returns.
RequestAccessWorkerThread_Report(e) ==
    /\ WorkerAt(e, "sw_report")
    /\ InvokeAll(Event("RequestAccessComplete", requestAccessThread[e].status,
                       heap[e].deviceId, FALSE, FALSE))
    /\ requestAccessThread' = [requestAccessThread EXCEPT
                                  ![e] = [NoThread EXCEPT !.state = "finished"]]
    /\ UNCHANGED <<now, lifeVars, regVars, m_callbacks, busVars, m_OCFRequestAccessContexts,
                   pendingOwnershipTransfer, spawned, terminated, pc, loc,
                   netVars, fetches, opensOk, closesOk, evictions, unregistered>>

\* ------------------------------ OnMultipleOwnershipTransferCompleteCallback
\* Lines 1621-1651.
OnMultipleOwnershipTransferCompleteCallback(t, deviceId, error) ==
    /\ At(t, "idle")
    /\ deviceId \in pendingOwnershipTransfer
    /\ pendingOwnershipTransfer' = pendingOwnershipTransfer \ {deviceId}
    /\ InvokeAll(Event("RequestAccessComplete",
                       IF error THEN "SecurityUpdateRequestFailed"
                       ELSE "SecurityUpdateRequestFinished",
                       deviceId, FALSE, FALSE))
    /\ LET e == FindDeviceDetails(deviceId)
       IN heap' = IF e = NoEntry THEN heap
                  ELSE [heap EXCEPT ![e].subowner = TRUE]
    /\ UNCHANGED <<now, lifeVars, m_OCFDevices, m_OCFDevicesIndexedByDeviceURI,
                   m_callbacks, busVars, requestAccessThread, m_OCFRequestAccessContexts,
                   spawned, terminated, pc, loc, netVars, fetches, opensOk,
                   closesOk, evictions, unregistered>>

\* ------------------------------------------------------------------- Stop
\* Lines 167-175 and 1720-1733: Stop on a started framework takes
\* m_startStopMutex and CleanupRequestAccessDevices collects, under the
\* mutex, the entries of m_OCFDevices whose securityInfo.isStarted is set.
Stop(t) ==
    /\ At(t, "idle")
    /\ \A u \in AppThreads : pc[u] \notin StopLabels       \* m_startStopMutex
    /\ IF ~m_isStarted
       THEN UNCHANGED <<pc, loc>>           \* IPCA_OK
       ELSE LET order == SortedKeys(DOMAIN m_OCFDevices)
                entries == [i \in DOMAIN order |-> m_OCFDevices[order[i]]]
                Started(e) == heap[e].isStarted
            IN /\ loc' = [loc EXCEPT ![t] =
                      [NoLoc EXCEPT !.requestAccessDevices =
                                        SelectSeq(entries, Started)]]
               /\ Goto(t, "stop_join")
    /\ UNCHANGED <<now, lifeVars, regVars, m_callbacks, busVars, secVars, netVars, histVars>>

\* Lines 1737-1759, for the next collected device: notify_all, join the
\* worker when the std::thread is joinable (the call blocks until the worker
\* function has returned), erase the device's context.
Stop_JoinRequestAccessThread(t) ==
    /\ At(t, "stop_join")
    /\ loc[t].requestAccessDevices # <<>>
    /\ LET e == Head(loc[t].requestAccessDevices)
       IN /\ ~WorkerRuns(e)
          /\ requestAccessThread' = [requestAccessThread EXCEPT ![e] = NoThread]
          /\ m_OCFRequestAccessContexts' =
                 m_OCFRequestAccessContexts \ {heap[e].deviceId}
    /\ loc' = [loc EXCEPT ![t].requestAccessDevices = Tail(@)]
    /\ UNCHANGED <<now, lifeVars, regVars, m_callbacks, busVars, pendingOwnershipTransfer,
                   spawned, terminated, pc, netVars, histVars>>

\* Lines 181-183: m_isStopping = true and the maintenance thread is woken.
Stop_SetStopping(t) ==
    /\ At(t, "stop_join")
    /\ loc[t].requestAccessDevices = <<>>
    /\ m_isStopping' = TRUE
    /\ Goto(t, "stop_join_worker")
    /\ UNCHANGED <<now, m_isStarted, earlyReturns, regVars, m_callbacks, busVars,
                   secVars, loc, netVars,
                   histVars>>

\* Lines 184-199: join the maintenance thread, clear both flags, return
\* IPCA_OK.
Stop_Return(t) ==
    /\ At(t, "stop_join_worker")
    /\ pc[WorkerThread] = "exited"
    /\ m_isStopping' = FALSE
    /\ m_isStarted' = FALSE
    /\ pc' = [pc EXCEPT ![t] = "idle", ![WorkerThread] = "none"]
    /\ loc' = [loc EXCEPT ![t] = NoLoc]
    /\ UNCHANGED <<now, earlyReturns, regVars, m_callbacks, busVars, secVars,
                   netVars, histVars>>

\* --------------------------------------------------------- ~DeviceDetails
\* The last shared_ptr to an entry is gone: the object is destroyed, and the
\* history kept about it with it.  The program takes no step while an
\* unreferenced object awaits destruction.
DestroyUnreferenced ==
    /\ Unreferenced # {}
    /\ ~terminated
    /\ IF \E e \in Unreferenced : Joinable(e)
       THEN \* ~thread() of a joinable std::thread calls std::terminate
            /\ terminated' = TRUE
            /\ UNCHANGED <<heap, fetches, opensOk, closesOk, evictions,
                           requestAccessThread, spawned>>
       ELSE /\ heap' = [e \in EntryIds |->
                          IF e \in Unreferenced THEN FreshEntry ELSE heap[e]]
            /\ fetches' = [e \in EntryIds |->
                             IF e \in Unreferenced
                             THEN [platform |-> 0, device |-> 0, maintenance |-> 0]
                             ELSE fetches[e]]
            /\ opensOk' = [e \in EntryIds |->
                             IF e \in Unreferenced THEN 0 ELSE opensOk[e]]
            /\ closesOk' = [e \in EntryIds |->
                              IF e \in Unreferenced THEN 0 ELSE closesOk[e]]
            /\ evictions' = {x \in evictions : x.entry \notin Unreferenced}
            /\ spawned' = [e \in EntryIds |->
                             IF e \in Unreferenced THEN 0 ELSE spawned[e]]
            /\ UNCHANGED <<requestAccessThread, terminated>>
    /\ UNCHANGED <<now, lifeVars, m_OCFDevices, m_OCFDevicesIndexedByDeviceURI,
                   m_callbacks, busVars, m_OCFRequestAccessContexts,
                   pendingOwnershipTransfer, pc, loc, netVars, received,
                   unregistered>>

\* ------------------------------------------------- registry specification
\* Discovery, metadata responses, the maintenance thread and Open/Close of
\* one application thread.
WorkerThreadStep ==
    \/ WorkerThread_Top
    \/ WorkerThread_Scan
    \/ WorkerThread_Fetch
    \/ WorkerThread_Snapshot

Discovery(t, records) ==
    \/ \E r \in records : OnResourceFound(t, r)
    \/ OnResourceFound_Snapshot(t)

\* Discovery responses that arrive only while the program holds no
\* DeviceDetails: the device is discovered, and after its entry was destroyed
\* discovered again.
DiscoveryOfAbsent(t, records) ==
    \/ FreeEntries = EntryIds /\ \E r \in records : OnResourceFound(t, r)
    \/ OnResourceFound_Snapshot(t)

Metadata(t) ==
    \/ \E h \in Hosts : OnDeviceInfoCallback(t, h, FALSE)
    \/ OnDeviceInfoCallback_Snapshot(t)
    \/ \E h \in Hosts : OnPlatformInfoCallback(t, h, FALSE)

\* Metadata responses of which a host may send several.
MetadataRepeated(t) ==
    \/ \E h \in Hosts, more \in BOOLEAN : OnDeviceInfoCallback(t, h, more)
    \/ OnDeviceInfoCallback_Snapshot(t)
    \/ OnDeviceInfoCallback_Deliver(t)
    \/ \E h \in Hosts, more \in BOOLEAN : OnPlatformInfoCallback(t, h, more)

OpenClose(t, ids) ==
    \/ \E id \in ids : IPCADeviceOpenCalled(t, id)
    \/ IPCADeviceOpenCalled_Store(t)
    \/ \E id \in ids : IPCADeviceCloseCalled(t, id)
    \/ IPCADeviceCloseCalled_Decrement(t)

\* Eviction: one device is discovered, opened and closed by one application
\* thread while the maintenance thread scans and the clock advances.
Next ==
    \/ DestroyUnreferenced
    \/ Start
    \/ AdvanceTime({AllowedTimeSincLastCloseMs + 1})
    \/ Discovery("cb1", {ResA1})
    \/ WorkerThreadStep
    \/ \E t \in {"cb1", WorkerThread} : GetCommonResources_Whole(t)
    \/ OpenClose("app1", {"A"})

Spec == Init /\ [][Next]_vars

\* Two application threads open and close the device beside the maintenance
\* thread.
NextOpenTick ==
    \/ DestroyUnreferenced
    \/ Start
    \/ AdvanceTime({AllowedTimeSincLastCloseMs + 1})
    \/ DiscoveryOfAbsent("cb1", {ResA1})
    \/ WorkerThreadStep
    \/ \E t \in {"cb1", WorkerThread} : GetCommonResources_Whole(t)
    \/ \E t \in AppThreads : OpenClose(t, {"A"})

SpecOpenTick == Init /\ [][NextOpenTick]_vars

\* Discovery of a device on two hosts, pings, and the maintenance thread.
NextUris ==
    \/ DestroyUnreferenced
    \/ Start
    \/ AdvanceTime({AllowedTimeSincLastCloseMs + 1})
    \/ Discovery("cb1", {ResA1, ResA2})
    \/ WorkerThreadStep
    \/ \E t \in {"cb1", WorkerThread} : GetCommonResources_Whole(t)
    \/ PingDevice("app1", "A", {"OC_STACK_OK", "OC_STACK_ERROR"})

SpecUris == Init /\ [][NextUris]_vars

\* Index: two devices are discovered that report the
\* same host and are evicted.
NextIndex ==
    \/ DestroyUnreferenced
    \/ Start
    \/ AdvanceTime({AllowedTimeSincLastCloseMs + 1})
    \/ Discovery("cb1", {ResA1, ResB1})
    \/ WorkerThreadStep
    \/ \E t \in {"cb1", WorkerThread} : GetCommonResources_Whole(t)

SpecIndex == Init /\ [][NextIndex]_vars

\* Open/Close: two application threads open and close one discovered device.
NextOpenClose ==
    \/ Discovery("cb1", {ResA1})
    \/ GetCommonResources_Whole("cb1")
    \/ OpenClose("app1", {"A"})
    \/ OpenClose("app2", {"A"})

SpecOpenClose == Init /\ [][NextOpenClose]_vars

\* Fetch: the discovery thread and the maintenance thread both run
\* GetCommonResources for a device that may answer.
NextFetch ==
    \/ Start
    \/ Discovery("cb1", {ResA1})
    \/ Metadata("cb2")
    \/ WorkerThreadStep
    \/ \E t \in {"cb1", WorkerThread} : GetCommonResources(t)

SpecFetch == Init /\ [][NextFetch]_vars

Security(t, ids) ==
    \/ \E id \in ids : RequestAccess(t, id)
    \/ RequestAccess_SetStarted(t)
    \/ RequestAccess_AddContext(t)
    \/ RequestAccess_Spawn(t)

RequestAccessWorkerThread(e, outcomes) ==
    \/ RequestAccessWorkerThread_Begin(e)
    \/ RequestAccessWorkerThread_Protocol(e, outcomes)
    \/ RequestAccessWorkerThread_Wake(e)
    \/ RequestAccessWorkerThread_Report(e)

Shutdown(t) ==
    \/ Stop(t)
    \/ Stop_JoinRequestAccessThread(t)
    \/ Stop_SetStopping(t)
    \/ Stop_Return(t)

\* Security: two application threads request access to one discovered device.
NextSecurity ==
    \/ Discovery("cb1", {ResA1})
    \/ GetCommonResources_Whole("cb1")
    \/ Security("app1", {"A"})
    \/ Security("app2", {"A"})
    \/ \E e \in EntryIds : RequestAccessWorkerThread(e, ProtocolOutcomes)
    \/ \E error \in BOOLEAN :
          OnMultipleOwnershipTransferCompleteCallback("cb2", "A", error)

SpecSecurity == Init /\ [][NextSecurity]_vars

\* Lifecycle: Start and Stop are called in any order and at any time by two
\* application threads while a device is discovered and the maintenance
\* thread runs.
NextLifecycle ==
    \/ Start
    \/ Start_AlreadyStarted
    \/ Stop_NotStarted
    \/ \E t \in AppThreads : Stop(t)
    \/ \E t \in AppThreads : Stop_SetStopping(t)
    \/ \E t \in AppThreads : Stop_Return(t)
    \/ DiscoveryOfAbsent("cb1", {ResA1})
    \/ \E t \in {"cb1", WorkerThread} : GetCommonResources_Whole(t)
    \/ WorkerThreadStep

SpecLifecycle == Init /\ [][NextLifecycle]_vars

\* Start with failing initialisation steps, Stop, and the maintenance thread.
NextStart ==
    \/ Start
    \/ \E step \in InitSteps : Start_InitFails(step)
    \/ Start_AlreadyStarted
    \/ Stop_NotStarted
    \/ \E t \in AppThreads : Stop(t)
    \/ \E t \in AppThreads : Stop_SetStopping(t)
    \/ \E t \in AppThreads : Stop_Return(t)
    \/ DiscoveryOfAbsent("cb1", {ResA1})
    \/ \E t \in {"cb1", WorkerThread} : GetCommonResources_Whole(t)
    \/ WorkerThreadStep

SpecStart == Init /\ [][NextStart]_vars

\* Transfer: with one listener registered, access to a discovered device that
\* uses the random-pin method is requested and the ownership transfer
\* completes without error.
NextTransfer ==
    \/ RegisterAppCallbackObject("app2", "L1")
    \/ DiscoveryOfAbsent("cb1", {ResA1})
    \/ GetCommonResources_Whole("cb1")
    \/ OnResourceFound_Deliver("cb1")
    \/ Security("app1", {"A"})
    \/ \E e \in EntryIds : RequestAccessWorkerThread(e, {"transfer_random_pin"})
    \/ OnMultipleOwnershipTransferCompleteCallback("cb2", "A", FALSE)

SpecTransfer == Init /\ [][NextTransfer]_vars

\* Unsupported: while a listener registers, access is requested to a
\* discovered device whose ownership-transfer method is either random pin or
\* one that is not supported.
NextUnsupported ==
    \/ RegisterAppCallbackObject("app2", "L1")
    \/ DiscoveryOfAbsent("cb1", {ResA1})
    \/ GetCommonResources_Whole("cb1")
    \/ OnResourceFound_Deliver("cb1")
    \/ Security("app1", {"A"})
    \/ \E e \in EntryIds :
          RequestAccessWorkerThread(e, {"not_supported", "transfer_random_pin"})
    \/ \E error \in BOOLEAN :
          OnMultipleOwnershipTransferCompleteCallback("cb2", "A", error)

SpecUnsupported == Init /\ [][NextUnsupported]_vars

\* The security worker is a thread of its own: the scheduler runs it.
FairUnsupported ==
    \A e \in EntryIds :
        WF_vars(RequestAccessWorkerThread(e, {"not_supported", "transfer_random_pin"}))

SpecUnsupportedFair == SpecUnsupported /\ FairUnsupported

\* Subowner: while a listener registers, access is requested to a discovered
\* device of which the application either is a subowner already or becomes
\* one by a transfer with a preconfigured pin.
NextSubowner ==
    \/ RegisterAppCallbackObject("app2", "L1")
    \/ DiscoveryOfAbsent("cb1", {ResA1})
    \/ GetCommonResources_Whole("cb1")
    \/ OnResourceFound_Deliver("cb1")
    \/ Security("app1", {"A"})
    \/ \E e \in EntryIds :
          RequestAccessWorkerThread(e, {"subowner", "transfer_preconfig_pin"})
    \/ \E error \in BOOLEAN :
          OnMultipleOwnershipTransferCompleteCallback("cb2", "A", error)

SpecSubowner == Init /\ [][NextSubowner]_vars

\* Shutdown: one application thread requests access to a discovered device,
\* another stops the framework, while the maintenance thread scans and the
\* clock advances.  The ownership transfer, when started, never completes.
NextShutdown ==
    \/ DestroyUnreferenced
    \/ Start
    \/ AdvanceTime({AllowedTimeSincLastCloseMs + 1})
    \/ DiscoveryOfAbsent("cb1", {ResA1})
    \/ WorkerThreadStep
    \/ \E t \in {"cb1", WorkerThread} : GetCommonResources_Whole(t)
    \/ Security("app1", {"A"})
    \/ \E e \in EntryIds :
          RequestAccessWorkerThread(e, {"discover_failed", "transfer_random_pin"})
    \/ Shutdown("app2")

SpecShutdown == Init /\ [][NextShutdown]_vars

\* Fair scheduling of the threads the program has created: the maintenance
\* thread, the security workers (whose wait_for ends after 30 s at the
\* latest), a Stop in progress and the destruction of unreferenced objects.
\* Nothing obliges the application to call Start, Stop or RequestAccess, the
\* protocol engine to answer, or the clock to reach a given value.
FairShutdown ==
    /\ WF_vars(DestroyUnreferenced)
    /\ WF_vars(WorkerThreadStep)
    /\ WF_vars(GetCommonResources_Whole(WorkerThread))
    /\ \A e \in EntryIds :
          WF_vars(RequestAccessWorkerThread(e, {"discover_failed",
                                                "transfer_random_pin"}))
    /\ WF_vars(Stop_JoinRequestAccessThread("app2"))
    /\ WF_vars(Stop_SetStopping("app2"))
    /\ WF_vars(Stop_Return("app2"))

SpecShutdownFair == SpecShutdown /\ FairShutdown

Listening(t, listeners) ==
    \/ \E cb \in listeners : RegisterAppCallbackObject(t, cb)
    \/ \E cb \in listeners : UnregisterAppCallbackObject(t, cb)

Commands(t, ids, types, results) ==
    \E id \in ids, type \in types :
        SendCommandToDevice(t, id, type, "/a", "", results)

SetCompletions(t, codes) ==
    \/ \E q \in pendingRequests, eCode \in codes : OnPostPut(t, q, eCode)
    \/ \E q \in pendingRequests, eCode \in codes : OnDelete(t, q, eCode)
    \/ LiveDeliver(t)

GetCompletions(t, codes) ==
    \/ \E q \in pendingRequests, eCode \in codes : OnGet(t, q, eCode)
    \/ \E q \in pendingRequests, eCode \in codes : OnObserve(t, q, eCode)
    \/ LiveDeliver(t)

\* Bus: one listener registers and unregisters while a device is discovered
\* and get and observe requests to it are answered.
NextBus ==
    \/ Listening("app1", {"L1"})
    \/ Discovery("cb1", {ResA1})
    \/ GetCommonResources_Whole("cb1")
    \/ OnResourceFound_Deliver("cb1")
    \/ Commands("app2", {"A"}, {"GetPropertiesComplete", "ResourceChange"},
                {"OC_STACK_OK"})
    \/ GetCompletions("cb2", {"OC_STACK_OK", "OC_STACK_RESOURCE_CHANGED",
                               "OC_STACK_UNAUTHORIZED_REQ"})

SpecBus == Init /\ [][NextBus]_vars

\* Notification: one listener registers and unregisters while a device is
\* discovered, stops responding and is reported by the maintenance thread.
NextNotify ==
    \/ Start
    \/ AdvanceTime({2 * AllowedTimeSinceLastDiscoveryResponseMs})
    \/ Listening("app1", {"L1"})
    \/ Discovery("cb1", {ResA1})
    \/ OnResourceFound_Deliver("cb1")
    \/ \E t \in {"cb1", WorkerThread} : GetCommonResources_Whole(t)
    \/ WorkerThreadStep
    \/ WorkerThread_Deliver

SpecNotify == Init /\ [][NextNotify]_vars

\* Live: two listeners register while a device is discovered and get
\* requests to it are answered.
NextLive ==
    \/ \E cb \in Listeners : RegisterAppCallbackObject("app1", cb)
    \/ DiscoveryOfAbsent("cb1", {ResA1})
    \/ GetCommonResources_Whole("cb1")
    \/ OnResourceFound_Deliver("cb1")
    \/ Commands("app2", {"A"}, {"GetPropertiesComplete"}, {"OC_STACK_OK"})
    \/ \E q \in pendingRequests : OnGet("cb2", q, "OC_STACK_OK")
    \/ LiveDeliver("cb2")

SpecLive == Init /\ [][NextLive]_vars

\* Order: while listeners register, two callback threads handle
\* discovery responses for the same device.
NextOrder ==
    \/ \E cb \in Listeners : RegisterAppCallbackObject("app1", cb)
    \/ \E t \in CbThreads : Discovery(t, {ResA1})
    \/ \E t \in CbThreads : GetCommonResources_Whole(t)
    \/ \E t \in CbThreads : OnResourceFound_Deliver(t)

SpecOrder == Init /\ [][NextOrder]_vars

\* Records: discovery responses for two resources of one device arrive in any
\* order and any number of times, one of them also with a changed resource
\* type, while a listener registers and get requests that the protocol engine
\* refuses are sent to resource paths and resource types of the device.
NextRecords ==
    \/ RegisterAppCallbackObject("app1", "L1")
    \/ Discovery("cb1", {ResA1, ResA1Retyped, ResA2})
    \/ GetCommonResources_Whole("cb1")
    \/ OnResourceFound_Deliver("cb1")
    \/ \E resourcePath \in {"/a", "/b", "/c"}, resourceType \in {"", "t1", "t2", "t3"} :
          SendCommandToDevice("app2", "A", "GetPropertiesComplete", resourcePath,
                              resourceType, {"OC_STACK_ERROR"})

SpecRecords == Init /\ [][NextRecords]_vars

\* Metadata: while a listener registers, a device is discovered and two
\* callback threads handle the answers to its metadata requests, of which
\* there may be several.
NextMetadata ==
    \/ RegisterAppCallbackObject("app1", "L1")
    \/ Discovery("cb1", {ResA1})
    \/ GetCommonResources_Whole("cb1")
    \/ \E t \in CbThreads : MetadataRepeated(t)

SpecMetadata == Init /\ [][NextMetadata]_vars

\* Evicted: a listener is registered, a device is discovered and a get
\* request is sent to it; the maintenance thread evicts the device once it
\* has been idle, and the answer to the request arrives at any time.
NextEvicted ==
    \/ DestroyUnreferenced
    \/ Start
    \/ AdvanceTime({AllowedTimeSincLastCloseMs + 1})
    \/ RegisterAppCallbackObject("app1", "L1")
    \/ DiscoveryOfAbsent("cb1", {ResA1})
    \/ OnResourceFound_Deliver("cb1")
    \/ \E t \in {"cb1", WorkerThread} : GetCommonResources_Whole(t)
    \/ WorkerThreadStep
    \/ Commands("app2", {"A"}, {"GetPropertiesComplete"}, {"OC_STACK_OK"})
    \/ \E q \in pendingRequests : OnGet("cb2", q, "OC_STACK_OK")
    \/ LiveDeliver("cb2")

SpecEvicted == Init /\ [][NextEvicted]_vars

\* Dispatch: while a listener registers and unregisters, commands of every
\* type are sent to a discovered device and to a device that is not in the
\* registry.
NextDispatch ==
    \/ Listening("app1", {"L1"})
    \/ DiscoveryOfAbsent("cb1", {ResA1})
    \/ GetCommonResources_Whole("cb1")
    \/ Commands("app2", {"A", "Z"}, CallbackTypes, {"OC_STACK_OK", "OC_STACK_ERROR"})

SpecDispatch == Init /\ [][NextDispatch]_vars

\* Completion: set, create and delete requests to a discovered device
\* complete with every protocol result while one listener is registered.
NextCompletion ==
    \/ RegisterAppCallbackObject("app1", "L1")
    \/ DiscoveryOfAbsent("cb1", {ResA1})
    \/ GetCommonResources_Whole("cb1")
    \/ OnResourceFound_Deliver("cb1")
    \/ Commands("app2", {"A"}, {"SetPropertiesComplete", "CreateResourceComplete",
                                "DeleteResourceComplete"}, {"OC_STACK_OK"})
    \/ SetCompletions("cb2", OCStackResults)

SpecCompletion == Init /\ [][NextCompletion]_vars

\* ============================================================= properties
InRegistry(e) == \E id \in DOMAIN m_OCFDevices : m_OCFDevices[id] = e

\* C1: for every URI u and every device entry d, the secondary index maps u
\* to d if and only if d is in m_OCFDevices and d.deviceUris contains u; also
\* when two device ids report the same host and after one of them is evicted.
C1_IndexIsProjection ==
    \A u \in Hosts, e \in EntryIds :
        (/\ u \in DOMAIN m_OCFDevicesIndexedByDeviceURI
         /\ m_OCFDevicesIndexedByDeviceURI[u] = e)
        <=> (InRegistry(e) /\ Contains(heap[e].deviceUris, u))

\* C2: of two overlapping RequestAccess calls on one discovered device at most
\* one spawns a security worker: at every reachable state at most one
\* security worker was spawned for a device entry.
C2_OneWorkerPerDevice == \A e \in EntryIds : spawned[e] <= 1

\* C3: at the moment Stop returns Ok from a started framework no security
\* worker spawned by RequestAccess is running or joinable and the maintenance
\* thread has exited and was joined.
C3_StopLeavesNoThread ==
    [][(\E t \in AppThreads : pc[t] = "stop_join_worker" /\ pc'[t] = "idle")
          => /\ \A e \in EntryIds : requestAccessThread'[e].state = "none"
             /\ pc'[WorkerThread] = "none"]_vars

\* C4: for every device entry deviceOpenCount equals the number of
\* IPCADeviceOpenCalled calls that returned Ok minus the number of
\* IPCADeviceCloseCalled calls that returned Ok for it, and is never negative
\* (the assertion of IPCADeviceCloseCalled never fails).
C4_OpenCountIsBalance ==
    \A e \in EntryIds :
        heap[e].deviceId # "" =>
            /\ heap[e].deviceOpenCount = opensOk[e] - closesOk[e]
            /\ heap[e].deviceOpenCount >= 0

\* C5 as stated: an entry for which IPCADeviceCloseCalled was never called is
\* never removed from the registry by the maintenance loop.
C5_NeverClosedNeverEvicted == \A x \in evictions : x.closed

\* C5 amended: an entry of the registry for which an IPCADeviceOpenCalled
\* returned Ok and no IPCADeviceCloseCalled was called stays in the registry
\* at every step, whatever time has passed.
C5_OpenedNeverClosedStays ==
    [][\A e \in EntryIds :
          (InRegistry(e) /\ opensOk[e] > 0 /\ closesOk[e] = 0) => InRegistry(e)']_vars

\* The maintenance loop has just scanned, with a sampled time more than
\* 300 000 ms after lastCloseDeviceTime, an opened and never closed entry,
\* and the entry is still in the registry.
C5_OpenedSurvivesScan ==
    \E e \in EntryIds :
        /\ InRegistry(e) /\ opensOk[e] > 0 /\ closesOk[e] = 0
        /\ pc[WorkerThread] = "wt_fetch"
        /\ loc[WorkerThread].toFetch = <<e>>
        /\ loc[WorkerThread].currentTime - heap[e].lastCloseDeviceTime
               > AllowedTimeSincLastCloseMs

\* C6: whenever the maintenance loop removes an entry, the entry has
\* deviceOpenCount = 0 and more than 300 000 ms have elapsed since its
\* lastCloseDeviceTime was last written.
C6_EvictedOnlyAfterIdleTime ==
    \A x \in evictions :
        /\ x.deviceOpenCount = 0
        /\ x.at - x.lastCloseDeviceTime > AllowedTimeSincLastCloseMs

\* C7: for every entry and metadata kind, GetCommonResources issues at most
\* 3 fetches over the entry's lifetime and the request count never exceeds 3.
C7_FetchesCapped ==
    \A e \in EntryIds : \A k \in DOMAIN GcrKinds :
        /\ fetches[e][k] <= MAX_REQUEST_COUNT
        /\ heap[e][GcrKinds[k].count] <= MAX_REQUEST_COUNT

\* C8: once UnregisterAppCallbackObject(cb) has returned, no callback method
\* of cb is invoked afterwards, also when a callback thread or the
\* maintenance thread is in the middle of delivering an event.
C8_NoCallbackAfterUnregister ==
    \A l \in Listeners : \A i \in DOMAIN received[l] :
        ~received[l][i].afterUnregister

\* C9: a request dispatched through SendCommandToDevice for a device id that
\* is not in the registry returns DeviceNotDiscovered, issues no protocol
\* call and causes no listener event.
C9_UnknownDeviceNotDiscovered ==
    (lastCommand.deviceId # "" /\ ~lastCommand.known) =>
        /\ lastCommand.status = "DeviceNotDiscovered"
        /\ ~lastCommand.called
        /\ \A q \in pendingRequests : q.deviceId # lastCommand.deviceId

\* C10: whenever a set, create or delete completion is delivered to a
\* listener, the status it carries is determined by the protocol result code
\* of the handler: OK, Continue and ResourceChanged give Ok, UnauthorizedReq
\* gives AccessDenied, ResourceCreated gives ResourceCreated, ResourceDeleted
\* gives ResourceDeleted and every other code gives Fail.
C10_StatusIsFunctionOfResult ==
    [][\A l \in Listeners :
          (Len(received'[l]) = Len(received[l]) + 1
           /\ received'[l][Len(received'[l])].ev.kind
                  \in {"SetCallback", "DeleteResourceCallback"})
          => \E t \in CbThreads :
                /\ pc[t] = "live_deliver"
                /\ loc'[t].i = loc[t].i + 1
                /\ received'[l][Len(received'[l])].ev.type
                      \in {"SetPropertiesComplete", "CreateResourceComplete",
                           "DeleteResourceComplete"}
                /\ received'[l][Len(received'[l])].ev.status =
                      CASE loc[t].eCode = "OC_STACK_OK" -> "Ok"
                        [] loc[t].eCode = "OC_STACK_CONTINUE" -> "Ok"
                        [] loc[t].eCode = "OC_STACK_RESOURCE_CHANGED" -> "Ok"
                        [] loc[t].eCode = "OC_STACK_UNAUTHORIZED_REQ"
                             -> "AccessDenied"
                        [] loc[t].eCode = "OC_STACK_RESOURCE_CREATED"
                             -> "ResourceCreated"
                        [] loc[t].eCode = "OC_STACK_RESOURCE_DELETED"
                             -> "ResourceDeleted"
                        [] OTHER -> "Fail"]_vars

\* A listener has just been given the SetCallback of a create request that
\* the protocol engine answered with OC_STACK_UNAUTHORIZED_REQ.
C10_AccessDeniedDelivered ==
    \E l \in Listeners, t \in CbThreads :
        /\ pc[t] = "live_deliver"
        /\ loc[t].i = 2
        /\ loc[t].eCode = "OC_STACK_UNAUTHORIZED_REQ"
        /\ m_callbacks = <<l>>
        /\ Len(received[l]) > 0
        /\ received[l][Len(received[l])].ev =
              [kind |-> "SetCallback", status |-> "AccessDenied",
               type |-> "CreateResourceComplete", deviceId |-> "A"]

\* C11: whenever a get completion or an observe update is delivered to a
\* listener, the status it carries is Fail exactly when the protocol result
\* code of the handler is greater than OC_STACK_RESOURCE_CHANGED, and Ok for
\* every other code; OC_STACK_UNAUTHORIZED_REQ is reported as Fail, never as
\* AccessDenied.
C11_GetObserveStatus ==
    [][\A l \in Listeners :
          (Len(received'[l]) = Len(received[l]) + 1
           /\ received'[l][Len(received'[l])].ev.kind
                  \in {"GetCallback", "ObserveCallback"})
          => \E t \in CbThreads :
                /\ pc[t] = "live_deliver"
                /\ loc'[t].i = loc[t].i + 1
                /\ received'[l][Len(received'[l])].ev.type
                      \in {"GetPropertiesComplete", "ResourceChange"}
                /\ received'[l][Len(received'[l])].ev.status =
                      IF loc[t].eCode \in {"OC_STACK_OK",
                                           "OC_STACK_RESOURCE_CREATED",
                                           "OC_STACK_RESOURCE_DELETED",
                                           "OC_STACK_CONTINUE",
                                           "OC_STACK_RESOURCE_CHANGED"}
                      THEN "Ok" ELSE "Fail"]_vars

\* A listener has just been given the ObserveCallback of an update that the
\* protocol engine reported with OC_STACK_RESOURCE_CHANGED, with status Ok.
C11_ResourceChangedDeliveredOk ==
    \E l \in Listeners, t \in CbThreads :
        /\ pc[t] = "live_deliver"
        /\ loc[t].i = 2
        /\ loc[t].eCode = "OC_STACK_RESOURCE_CHANGED"
        /\ m_callbacks = <<l>>
        /\ Len(received[l]) > 0
        /\ received[l][Len(received[l])].ev =
              [kind |-> "ObserveCallback", status |-> "Ok",
               type |-> "ResourceChange", deviceId |-> "A"]

RequestAccessEvents(l) ==
    LET isRequestAccess(r) == r.ev.kind = "RequestAccessComplete"
    IN SelectSeq(received[l], isRequestAccess)

\* C12: for an accepted RequestAccess on a device that uses the random-pin
\* method and whose ownership transfer completes with error = false, no
\* listener is given more than one RequestAccessComplete event and none with
\* a status other than Finished, wherever the completion callback fires
\* relative to the 30 s wait of the worker.
C12_ExactlyOneFinished ==
    \A l \in Listeners :
        /\ Len(RequestAccessEvents(l)) <= 1
        /\ \A i \in DOMAIN RequestAccessEvents(l) :
               RequestAccessEvents(l)[i].ev.status = "SecurityUpdateRequestFinished"

\* C13: the maintenance thread marks a device as not responding, and so
\* delivers DeviceDiscovered(responsive = false, updated = false) for it, only
\* at a tick at which more than 60 000 ms have passed since the device's
\* last discovery response, and only when it is not already marked.
C13_NotRespondingOnlyAfterSilence ==
    [][\A e \in EntryIds :
          (e \in SeqToSet(loc'[WorkerThread].notResponding)
           /\ pc[WorkerThread] = "wt_scan")
          => /\ ~heap[e].deviceNotRespondingIndicated
             /\ now - heap[e].lastResponseTimeToDiscovery
                   > AllowedTimeSinceLastDiscoveryResponseMs]_vars

\* C14: a Start on a started framework and a Stop on a framework that is not
\* started return Ok and change nothing; the maintenance thread exists
\* exactly while the framework is started, so no Start creates a second one
\* (which would end the program in std::terminate).
C14_StartStopIdempotent ==
    [][/\ earlyReturns' # earlyReturns
          => UNCHANGED <<now, m_isStarted, m_isStopping, regVars, m_callbacks,
                         busVars, secVars, pc, loc, netVars, histVars>>
       /\ m_isStarted' <=> pc'[WorkerThread] # "none"
       /\ ~terminated']_vars

\* Start was called on a started framework whose maintenance thread runs, and
\* Stop was called on a framework that was not started.
C14_BothEarlyReturnsTaken ==
    /\ earlyReturns = {"Start", "Stop"}
    /\ m_isStarted
    /\ pc[WorkerThread] = "wt_scan"

C16_NoRequestAccessDuringStop ==
    [][(\E u \in AppThreads : pc[u] \in StopLabels)
          => \A t \in AppThreads : ~(pc[t] = "idle" /\ pc'[t] = "ra_set")]_vars

\* C17: a security worker that leaves its wait for the completion of the
\* ownership transfer while Stop is draining it (CleanupRequestAccessDevices
\* has signalled it and waits to join it) and before the transfer-complete
\* callback has arrived ends with status Fail, which it goes on to report;
\* it does not end silently.
C17_DrainedWorkerFails ==
    [][\A e \in EntryIds :
          (/\ requestAccessThread[e].state = "sw_wait"
           /\ requestAccessThread'[e].state # "sw_wait"
           /\ heap[e].deviceId \in pendingOwnershipTransfer
           /\ \E t \in AppThreads :
                 /\ pc[t] = "stop_join"
                 /\ loc[t].requestAccessDevices # <<>>
                 /\ Head(loc[t].requestAccessDevices) = e)
          => /\ requestAccessThread'[e].state = "sw_report"
             /\ requestAccessThread'[e].status = "SecurityUpdateRequestFailed"]_vars

\* C18: the thread that delivers a completion gives the event only to
\* listeners of the list as it was when the delivery began; a listener
\* registered after that moment does not receive the event.
C18_DeliveryFromSnapshot ==
    [][\A t \in CbThreads, l \in Listeners :
          (/\ pc[t] = "live_deliver"
           /\ loc'[t].i = loc[t].i + 1
           /\ received'[l] # received[l])
          => Contains(loc[t].snap, l)]_vars

\* C19: when two discovery responses for one device are processed one after
\* the other, every listener receives the event of the first before the
\* event of the second.  The response that created the device's entry was
\* processed before every response that found the entry, and only those give
\* updated = false: a listener that the creating handler has yet to serve
\* has not been given such an event for the device.
C19_DiscoveryEventsInOrder ==
    \A t \in CbThreads, l \in Listeners :
        (/\ pc[t] = "orf_deliver"
         /\ loc[t].newDevice
         /\ Contains(loc[t].rest, l))
        => \A i \in DOMAIN received[l] :
              ~(/\ received[l][i].ev.kind = "DeviceDiscovered"
                /\ received[l][i].ev.deviceId = heap[loc[t].dev].deviceId
                /\ ~received[l][i].ev.updated)

\* The worker of entry e has found an ownership-transfer method that is not
\* supported and has yet to report it.
UnsupportedFound(e) ==
    /\ requestAccessThread[e].state = "sw_report"
    /\ requestAccessThread[e].status = "SecurityUpdateRequestNotSupported"

\* C20: a security worker that finds the device capable of multiple
\* ownership, the application not a subowner and the selected method neither
\* random pin nor preconfigured pin starts no ownership transfer and delivers
\* nothing while it finds this out, then in one step gives every listener
\* exactly one RequestAccessComplete(SecurityUpdateRequestNotSupported) and
\* ends; no other RequestAccessComplete is delivered meanwhile, and the worker
\* does end.
C20_UnsupportedMethodReportedOnce ==
    /\ [][\A e \in EntryIds :
             LET id == heap[e].deviceId
                 ev == Event("RequestAccessComplete",
                             "SecurityUpdateRequestNotSupported", id, FALSE, FALSE)
             IN /\ (~UnsupportedFound(e) /\ UnsupportedFound(e)')
                   => /\ received' = received
                      /\ pendingOwnershipTransfer' = pendingOwnershipTransfer
                /\ (UnsupportedFound(e) /\ ~UnsupportedFound(e)')
                   => /\ requestAccessThread'[e].state = "finished"
                      /\ id \notin pendingOwnershipTransfer'
                      /\ \A l \in Listeners :
                            IF Contains(m_callbacks, l)
                            THEN /\ Len(received'[l]) = Len(received[l]) + 1
                                 /\ SubSeq(received'[l], 1, Len(received[l]))
                                       = received[l]
                                 /\ received'[l][Len(received'[l])].ev = ev
                            ELSE received'[l] = received[l]
                /\ (UnsupportedFound(e) /\ UnsupportedFound(e)')
                   => /\ id \notin pendingOwnershipTransfer'
                      /\ \A l \in Listeners :
                            RequestAccessEvents(l)' = RequestAccessEvents(l)]_vars
    /\ \A e \in EntryIds :
          UnsupportedFound(e) ~> (requestAccessThread[e].state = "finished")

\* A listener has been given the report of an unsupported method by a worker
\* that has ended.
C20_NotSupportedDelivered ==
    \E e \in EntryIds, l \in Listeners :
        /\ requestAccessThread[e].state = "finished"
        /\ Len(RequestAccessEvents(l)) = 1
        /\ RequestAccessEvents(l)[1].ev.status = "SecurityUpdateRequestNotSupported"
        /\ RequestAccessEvents(l)[1].ev.deviceId = heap[e].deviceId
        /\ pendingOwnershipTransfer = {}

\* C21: a security worker that finds the application to be a subowner of the
\* device already (isSubownerOfDevice answers true) gives, in that step, every
\* listener exactly one RequestAccessComplete(SecurityUpdateRequestFinished)
\* and nothing else (no PasswordInput), starts no ownership transfer, and has
\* ended: it neither waits nor reports again.
C21_SubownerFinishesAtOnce ==
    [][\A e \in EntryIds :
          LET f == requestAccessThread[e].dev
              ev == Event("RequestAccessComplete", "SecurityUpdateRequestFinished",
                          heap[e].deviceId, FALSE, FALSE)
          IN (/\ requestAccessThread[e].state = "sw_protocol"
              /\ requestAccessThread'[e].state # "sw_protocol"
              /\ heap'[f].subowner)
             => /\ requestAccessThread'[e].state = "finished"
                /\ pendingOwnershipTransfer' = pendingOwnershipTransfer
                /\ \A l \in Listeners :
                      IF Contains(m_callbacks, l)
                      THEN /\ Len(received'[l]) = Len(received[l]) + 1
                           /\ SubSeq(received'[l], 1, Len(received[l])) = received[l]
                           /\ received'[l][Len(received'[l])].ev = ev
                      ELSE received'[l] = received[l]]_vars

\* A worker has ended, the application is a subowner, and a listener holds
\* one RequestAccessComplete(Finished) and was never asked for a pin.
C21_SubownerReported ==
    \E e \in EntryIds, l \in Listeners :
        /\ requestAccessThread[e].state = "finished"
        /\ heap[e].subowner
        /\ pendingOwnershipTransfer = {}
        /\ Len(RequestAccessEvents(l)) = 1
        /\ RequestAccessEvents(l)[1].ev.status = "SecurityUpdateRequestFinished"
        /\ \A i \in DOMAIN received[l] : received[l][i].ev.kind # "PasswordInput"
        /\ spawned[e] = 1

\* C22: no field of a device entry is written by two threads at once, every
\* write being made under m_OCFFrameworkMutex.  For deviceOpenCount: while a
\* thread is between the read and the write of its increment of the field,
\* no other thread writes the field.
C22_WritesAreExclusive ==
    [][\A t \in AppThreads :
          (pc[t] = "open_store" /\ pc'[t] = "open_store")
          => heap'[loc[t].dev].deviceOpenCount
                = heap[loc[t].dev].deviceOpenCount]_vars

\* C23: the maintenance thread never removes from m_OCFDevices an entry whose
\* security workflow is active, that is whose securityInfo.isStarted is set
\* and whose security worker has not been joined.
C23_ActiveSecurityNotEvicted ==
    [][\A e \in EntryIds :
          (InRegistry(e) /\ ~InRegistry(e)')
          => ~(heap[e].isStarted /\ Joinable(e))]_vars

\* The resource types (interfaces) of the handles now stored in the
\* resourceMap of entry e.
TypesInResourceMap(e) ==
    UNION {SeqToSet(heap[e].resourceMap[p].types) : p \in DOMAIN heap[e].resourceMap}

InterfacesInResourceMap(e) ==
    UNION {SeqToSet(heap[e].resourceMap[p].interfaces) :
              p \in DOMAIN heap[e].resourceMap}

\* C24: for every device entry discoveredResourceTypes is exactly the union
\* of the resource types of the handles currently stored in its resourceMap,
\* also after a response has replaced the handle of a resource path with one
\* of other types.
C24_TypesEqualUnion ==
    \A e \in EntryIds :
        SeqToSet(heap[e].discoveredResourceTypes) = TypesInResourceMap(e)

NoDuplicates(list) ==
    \A i, j \in DOMAIN list : list[i] = list[j] => i = j

\* C25: for every device entry discoveredResourceTypes holds every resource
\* type of every handle now stored in its resourceMap and holds no string
\* twice, and no step takes a string out of the list of an entry that stays
\* the entry of its device; the same for discoveredResourceInterfaces.
C25_TypesAccumulate ==
    /\ [](\A e \in EntryIds :
             /\ TypesInResourceMap(e) \subseteq SeqToSet(heap[e].discoveredResourceTypes)
             /\ InterfacesInResourceMap(e)
                   \subseteq SeqToSet(heap[e].discoveredResourceInterfaces)
             /\ NoDuplicates(heap[e].discoveredResourceTypes)
             /\ NoDuplicates(heap[e].discoveredResourceInterfaces))
    /\ [][\A e \in EntryIds :
             (heap[e].deviceId # "" /\ heap'[e].deviceId = heap[e].deviceId)
             => /\ SeqToSet(heap[e].discoveredResourceTypes)
                      \subseteq SeqToSet(heap'[e].discoveredResourceTypes)
                /\ SeqToSet(heap[e].discoveredResourceInterfaces)
                      \subseteq SeqToSet(heap'[e].discoveredResourceInterfaces)]_vars

\* An entry whose resource /a was replaced by a handle of another type and
\* which has a second resource: the lists hold all that was ever reported.
C25_AllTypesKept ==
    \E e \in EntryIds :
        /\ DOMAIN heap[e].resourceMap = {"/a", "/b"}
        /\ heap[e].resourceMap["/a"] = ResA1Retyped
        /\ SeqToSet(heap[e].discoveredResourceTypes) = {"t1", "t2", "t3"}
        /\ Len(heap[e].discoveredResourceTypes) = 3
        /\ Len(heap[e].discoveredResourceInterfaces) = 2

\* C26: a device that a maintenance tick classifies as idle, and so erases,
\* is put on neither the not-responding list nor the list of devices to
\* fetch metadata for, and its deviceNotRespondingIndicated is not changed;
\* for the rest of the tick the two lists, from which alone the tick issues
\* fetches and delivers not-responding events, hold registered devices only.
C26_IdleOnNoOtherList ==
    /\ [][(pc[WorkerThread] = "wt_scan" /\ pc'[WorkerThread] # "wt_scan")
            => \A e \in EntryIds :
                  (InRegistry(e) /\ ~InRegistry(e)')
                  => /\ heap'[e] = heap[e]
                     /\ ~Contains(loc'[WorkerThread].notResponding, e)
                     /\ ~Contains(loc'[WorkerThread].toFetch, e)]_vars
    /\ [](pc[WorkerThread] \notin {"none", "wt_top", "wt_scan", "exited"}
            => \A e \in SeqToSet(loc[WorkerThread].notResponding)
                         \cup SeqToSet(loc[WorkerThread].toFetch) :
                  InRegistry(e))

\* The scan has just erased a device that had also stopped responding and
\* lacked metadata, and the device is on neither list.
C26_IdleAndSilentErased ==
    \E e \in EntryIds :
        /\ pc[WorkerThread] \in {"wt_fetch", "wt_snapshot"}
        /\ heap[e].deviceId # ""
        /\ ~InRegistry(e)
        /\ \E x \in evictions : x.entry = e
        /\ DeviceStoppedResponding(e, loc[WorkerThread].currentTime)
        /\ DeviceLacksCommonResources(e)
        /\ ~Contains(loc[WorkerThread].notResponding, e)
        /\ ~Contains(loc[WorkerThread].toFetch, e)

GcrLabels == {"gcr_platform", "gcr_device", "gcr_maintenance", "gcr_return"}

\* C27: the step that puts a new entry in m_OCFDevices leaves exactly one
\* callback thread with newDevice = true for it, about to schedule the
\* discovery of all resources and the metadata fetch; of two callback threads
\* handling responses for one device id at the same time at most one has
\* newDevice = true (one entry is created); a callback thread is in that
\* scheduling only with newDevice = true; and the discovery callbacks issue
\* each metadata fetch of an entry at most once.
C27_OneCreatorSchedules ==
    /\ [][\A e \in EntryIds :
             (~InRegistry(e) /\ InRegistry(e)')
             => \E t \in CbThreads :
                   /\ loc'[t].newDevice /\ loc'[t].dev = e
                   /\ pc[t] = "idle" /\ pc'[t] = "gcr_platform"
                   /\ \A u \in CbThreads \ {t} :
                         ~(loc'[u].newDevice /\ loc'[u].dev = e)]_vars
    /\ [](\A t, u \in CbThreads :
             (t # u /\ loc[t].newDevice /\ loc[u].newDevice)
             => heap[loc[t].dev].deviceId # heap[loc[u].dev].deviceId)
    /\ [](\A t \in CbThreads : pc[t] \in GcrLabels => loc[t].newDevice)
    /\ [](\A e \in EntryIds, k \in DOMAIN GcrKinds : fetches[e][k] <= 1)

\* Two callback threads are handling responses for one device at the same
\* time; one of them created the entry and has issued the metadata fetches.
C27_SecondThreadFindsEntry ==
    \E t, u \in CbThreads :
        /\ t # u
        /\ pc[t] # "idle" /\ pc[u] # "idle"
        /\ loc[t].dev = loc[u].dev
        /\ loc[t].newDevice /\ ~loc[u].newDevice
        /\ pc[t] \notin GcrLabels
        /\ fetches[loc[t].dev]["device"] = 1

\* C28: the updated flag that OnResourceFound computes for a record, and
\* delivers in the DeviceDiscovered event, is true exactly when handling the
\* record added a host URI, a resource path, a resource type or a resource
\* interface to the entry; a record equal to the one already stored under
\* its path gives updated = false and changes none of the four.
C28_UpdatedIffSomethingNew ==
    [][\A t \in CbThreads :
          /\ (pc[t] = "idle" /\ pc'[t] \in {"gcr_platform", "orf_snapshot"})
             => LET e == loc'[t].dev
                    r == loc'[t].res
                    added ==
                        \/ SeqToSet(heap'[e].deviceUris) # SeqToSet(heap[e].deviceUris)
                        \/ DOMAIN heap'[e].resourceMap # DOMAIN heap[e].resourceMap
                        \/ SeqToSet(heap'[e].discoveredResourceTypes)
                              # SeqToSet(heap[e].discoveredResourceTypes)
                        \/ SeqToSet(heap'[e].discoveredResourceInterfaces)
                              # SeqToSet(heap[e].discoveredResourceInterfaces)
                    known == /\ r.uri \in DOMAIN heap[e].resourceMap
                             /\ heap[e].resourceMap[r.uri] = r
                IN /\ loc'[t].updated <=> added
                   /\ known => ~loc'[t].updated
          /\ (pc[t] = "orf_deliver")
             => \A l \in Listeners :
                   received'[l] # received[l]
                   => /\ received'[l][Len(received'[l])].ev.updated = loc[t].updated
                      /\ received'[l][Len(received'[l])].ev.deviceId
                            = heap[loc[t].dev].deviceId]_vars

\* A listener has been given updated = false for a record handled again,
\* the entry holding both resources of the device.
C28_RepeatNotUpdated ==
    \E l \in Listeners, e \in EntryIds :
        /\ Len(received[l]) = 1
        /\ received[l][1].ev.kind = "DeviceDiscovered"
        /\ ~received[l][1].ev.updated
        /\ received[l][1].ev.deviceId = heap[e].deviceId
        /\ DOMAIN heap[e].resourceMap = {"/a", "/b"}

OdiLabels == {"odi_snapshot", "odi_deliver"}

C30_NoCompletionAfterEviction ==
    [][\A t \in CbThreads, l \in Listeners :
          (pc[t] = "live_deliver" /\ received'[l] # received[l])
          => loc[t].ev.deviceId \in DOMAIN m_OCFDevices]_vars

C32_FailedStartLeavesNotStarted ==
    [][(earlyReturns' \cap InitSteps # earlyReturns \cap InitSteps)
          => /\ ~m_isStarted /\ ~m_isStarted'
             /\ pc'[WorkerThread] = pc[WorkerThread]
             /\ UNCHANGED <<now, m_isStopping, regVars, m_callbacks, busVars,
                            secVars, pc, loc, netVars, histVars>>
             /\ ~AlreadyStarted'
             /\ ENABLED Start]_vars

\* Start failed on each of its three initialisation steps, and a later Start
\* ran the initialisation to its end: the framework is started and its
\* maintenance thread scans the registry.
C32_StartedAfterFailures ==
    /\ InitSteps \subseteq earlyReturns
    /\ m_isStarted
    /\ pc[WorkerThread] = "wt_scan"

\* C33: when Stop returns from its shutdown work, m_OCFRequestAccessContexts
\* is empty: the context of every accepted RequestAccess has been released,
\* those of devices the maintenance thread removed before the Stop and those
\* of finished workers included.
C33_NoContextAfterStop ==
    [][\A t \in AppThreads :
          (pc[t] = "stop_join_worker" /\ pc'[t] = "idle")
          => m_OCFRequestAccessContexts' = {}]_vars

\* C34: no elapsed-time subtraction of a maintenance tick wraps around: for
\* every device the scan walks, the currentTime sampled before the mutex was
\* taken is at least the lastCloseDeviceTime it is compared with (evaluated
\* when deviceOpenCount is 0) and at least the lastResponseTimeToDiscovery it
\* is compared with (evaluated for a device that is not idle and not yet
\* marked as not responding).
C34_ElapsedTimeNeverWraps ==
    [][(pc[WorkerThread] = "wt_scan" /\ pc'[WorkerThread] # "wt_scan")
          => \A d \in DOMAIN m_OCFDevices :
                LET e == m_OCFDevices[d]
                    currentTime == loc[WorkerThread].currentTime
                IN /\ heap[e].deviceOpenCount = 0
                        => currentTime >= heap[e].lastCloseDeviceTime
                   /\ (LookedAtFurther(e, currentTime)
                         /\ ~heap[e].deviceNotRespondingIndicated)
                        => currentTime >= heap[e].lastResponseTimeToDiscovery]_vars

\* The IPCADeviceCloseCalled calls made so far for entry e: those that
\* returned and those that found the entry and are about to decrement.
ClosesCalled(e) ==
    closesOk[e] + Cardinality({t \in AppThreads :
                                  pc[t] = "close_decrement" /\ loc[t].dev = e})

\* C35: the maintenance thread never removes from the registry a device for
\* which an IPCADeviceOpenCalled has returned Ok whose matching
\* IPCADeviceCloseCalled has not yet been called, however the Open calls
\* (lookup under the mutex, increment after it) interleave with each other,
\* with Close calls and with the maintenance tick.
C35_OpenDeviceNotEvicted ==
    [][\A e \in EntryIds :
          (InRegistry(e) /\ ~InRegistry(e)') => ~(opensOk[e] > ClosesCalled(e))]_vars

\* C36: every device entry that exists (it is in m_OCFDevices, or a thread
\* that obtained it from m_OCFDevices still holds it) has at least one
\* element in deviceUris, so the assertion of PingDevice never fails and
\* GetCommonResources never reads deviceUris[0] of an empty sequence.
C36_DeviceUrisNeverEmpty ==
    /\ \A e \in EntryIds : heap[e].deviceId # "" => Len(heap[e].deviceUris) > 0
    /\ ~terminated

\* The discovery thread is about to fetch the metadata of an entry that the
\* maintenance thread has meanwhile removed from the registry and for which
\* PingDevice passed its assertion and sent its request.
C36_HeldEntryPinged ==
    /\ pc["cb1"] = "gcr_platform"
    /\ ~InRegistry(loc["cb1"].dev)
    /\ heap[loc["cb1"].dev].lastPingTime > 0
    /\ Len(heap[loc["cb1"].dev].deviceUris) > 0

\* C37: each accepted RequestAccess brings a listener at most one
\* RequestAccessComplete event: for every device entry, a listener has
\* received no more such events for the device than security workers were
\* created for it, the worker and the transfer-complete callback never both
\* reporting for one request.
C37_OneCompletionPerRequest ==
    \A l \in Listeners : \A e \in EntryIds :
        heap[e].deviceId # "" =>
            Cardinality({i \in DOMAIN RequestAccessEvents(l) :
                            RequestAccessEvents(l)[i].ev.deviceId = heap[e].deviceId})
                <= spawned[e]

\* C38: once the security workflow of a device entry has ended (its worker
\* was created and no longer runs: it returned, or Stop joined it),
\* securityInfo.isStarted does not stay set for ever, so that a later
\* RequestAccess for the entry is accepted again.
C38_IsStartedEventuallyCleared ==
    \A e \in EntryIds :
        (heap[e].isStarted /\ spawned[e] > 0 /\ ~WorkerRuns(e))
            ~> ~heap[e].isStarted

\* This step delivers RequestAccessComplete(Failed) for device id to a
\* listener.
FailedDelivered(id) ==
    \E l \in Listeners :
        /\ Len(received'[l]) = Len(received[l]) + 1
        /\ received'[l][Len(received'[l])].ev =
               Event("RequestAccessComplete", "SecurityUpdateRequestFailed", id,
                     FALSE, FALSE)

\* C39: securityInfo.subowner of a device entry becomes true only in a step
\* of a security worker that asked the device (isSubownerOfDevice) or in a
\* transfer-complete callback for the device, and a transfer-complete
\* callback with error = true, which reports RequestAccessComplete(Failed),
\* leaves it false.
C39_SubownerOnlyOnSuccess ==
    [][\A e \in EntryIds :
          LET id == heap[e].deviceId
              callback == id \in pendingOwnershipTransfer
                            /\ id \notin pendingOwnershipTransfer'
          IN (id # "" /\ ~heap[e].subowner /\ heap'[e].deviceId = id)
             => /\ heap'[e].subowner
                   => \/ \E w \in EntryIds :
                            /\ requestAccessThread[w].state = "sw_protocol"
                            /\ requestAccessThread'[w].state # "sw_protocol"
                      \/ callback
                /\ (callback /\ FailedDelivered(id)) => ~heap'[e].subowner]_vars

====
